---- MODULE Spec2Model ----
(***************************************************************************)
(* CSVAPI: the upload handler (src/app/api/upload/route.ts, POST) and the  *)
(* query handler (src/app/api/v1/[project]/[dataset]/route.ts, GET) as     *)
(* concurrent request handlers over the tables of src/supabase-schema.sql. *)
(* Every await on the backing store is one step of a handler.              *)
(***************************************************************************)
EXTENDS Integers, Naturals, Sequences, FiniteSets, Bags, TLC

\* ------------------------------------------------------------------ bounds
NumUploads == 2
NumQueries == 2
\* the largest accepted file of the model fills MaxBatches insert batches
MaxBatches == 2

Uploads == 1..NumUploads
Queries == 1..NumQueries

\* ------------------------------------------------------- program constants
MaxFileBytes == 10 * 1024 * 1024
MaxRows == 10000
batchSize == 500
DefaultMonthlyLimit == 1000

\* --------------------------------------------------------------- sentinels
NoId == -1
SeedId == 0
NoUser == "anonymous"
NoKey == <<>>
NoName == <<>>
NoProject == [id |-> NoId, user_id |-> NoUser, slug |-> <<>>]

Users == {"u1", "u2"}

\* ------------------------------------------------------------ pure helpers
Min(a, b) == IF a < b THEN a ELSE b

LowerCaseLetters ==
  {"a","b","c","d","e","f","g","h","i","j","k","l","m",
   "n","o","p","q","r","s","t","u","v","w","x","y","z"}
Digits == {"0","1","2","3","4","5","6","7","8","9"}

\* String.prototype.toLowerCase on one character (the capitals that occur).
ToLowerChar(c) ==
  CASE c = "A" -> "a" [] c = "C" -> "c" [] c = "D" -> "d"
    [] c = "F" -> "f" [] c = "I" -> "i" [] c = "N" -> "n" [] c = "S" -> "s"
    [] c = "T" -> "t" [] c = "V" -> "v"
    [] OTHER -> c

toLowerCase(s) == [i \in 1..Len(s) |-> ToLowerChar(s[i])]

\* s.replace(pat, ''): removes the FIRST occurrence of pat only.
RemoveFirst(s, pat) ==
  LET hits == {i \in 1..(Len(s) - Len(pat) + 1) : SubSeq(s, i, i + Len(pat) - 1) = pat}
  IN  IF hits = {} THEN s
      ELSE LET i == CHOOSE j \in hits : \A k \in hits : j <= k
           IN  SubSeq(s, 1, i - 1) \o SubSeq(s, i + Len(pat), Len(s))

\* s.replace(/[^a-z0-9]/g, '_')
ReplaceNonAlnum(s) ==
  [i \in 1..Len(s) |-> IF s[i] \in LowerCaseLetters \cup Digits THEN s[i] ELSE "_"]

DotCsv == <<".", "c", "s", "v">>

\* upload/route.ts line 146
DatasetName(fileName) == ReplaceNonAlnum(toLowerCase(RemoveFirst(fileName, DotCsv)))

\* Text is a sequence of string chunks.
\* nanoid(32): a fresh random string per call; the one drawn for request r, as its
\* first 3 characters and the remaining 29.
NanoId(r) == <<"id" \o ToString(r), "tail" \o ToString(r)>>

\* upload/route.ts line 191: `csv_live_${nanoid(32)}`
ApiKeyOf(r) == <<"csv_live_">> \o NanoId(r)

\* variant of KeyPrefix: the key is not truncated
KeyPrefixWhole(k) == k \o <<"...">>

\* upload/route.ts line 192: apiKey.substring(0, 12) + '...'
KeyPrefix(k) == SubSeq(k, 1, 2) \o <<"...">>

\* SHA-256 hex digest (upload/route.ts 195-199, v1 route 223-227): one opaque
\* chunk, distinct for distinct keys, in which no chunk of the key occurs.
Sha256Hex(k) == <<"sha256(" \o k[1] \o k[2] \o k[3] \o ")">>

\* upload/route.ts line 110: `project-${nanoid(8)}`
ProjectSlug(r) == <<"project-", "slug" \o ToString(r)>>

\* upload/route.ts line 132: `${user.id}/${project.id}/${file.name}`
StoragePath(user, project_id, fileName) ==
  <<user, "/", ToString(project_id), "/">> \o fileName

\* upload/route.ts line 229: the endpoint path of a dataset
EndpointPath(slug, datasetName) == <<"/api/v1/">> \o slug \o <<"/">> \o datasetName

\* ---------------------------------------------------------- request inputs
FileNameA == <<"D","a","t","a",".","c","s","v">>
FileNameSeed == <<"s","e","e","d",".","c","s","v">>

File(name, size, rows, errors) ==
  [name |-> name, size |-> size, rows |-> rows, errors |-> errors]

NoFile == File(NoName, 0, 0, 0)

AcceptedFiles ==
  { File(FileNameA, 2048, n, 0) : n \in {0, (MaxBatches - 1) * batchSize + 1} }

RejectedFiles ==
  { File(FileNameA, MaxFileBytes + 1, 2, 0),
    File(FileNameA, 2048, 2, 1),
    File(FileNameA, 2048, MaxRows + 1, 0) }

Files == AcceptedFiles \cup RejectedFiles \cup {NoFile}

\* ------------------------------------------------------------------- state
\* The tables of supabase-schema.sql with the columns the two handlers write or
\* read (ids are the number of the request that created the row; created_at,
\* updated_at, projects.name/description and datasets.schema_json are left out).
VARIABLES
  projects,     \* table projects: set of [id, user_id, slug]
  storage,      \* bucket csv-uploads: set of object paths
  datasets,     \* table datasets
  csv_data,     \* table csv_data, as contiguous runs of rows
  api_keys,     \* table api_keys
  usage_logs,   \* table usage_logs: bag of log records
  up,           \* per upload request: control state and locals of POST
  qr,           \* per query request: control state and locals of GET
  pl,           \* one query plan: query string, parsed params, result, response
  ing,          \* one parsed file: header line, cells, and what each parser returns
  tc            \* one createTable call: backend behaviour, position, result

db == <<projects, storage, datasets, csv_data, api_keys, usage_logs>>
vars == <<projects, storage, datasets, csv_data, api_keys, usage_logs, up, qr, pl, ing, tc>>

\* ------------------------------------------------------- records and rows
\* csvRows[index] of upload/route.ts 168-172; data is the parsed record, named by
\* its position in parseResult.data.  (CsvRowZeroBased: variant numbering from 0.)
CsvRowZeroBased(dataset_id, index) ==
  [dataset_id |-> dataset_id, row_number |-> index, data |-> index]

CsvRow(dataset_id, index) ==
  [dataset_id |-> dataset_id, row_number |-> index + 1, data |-> index]

\* csvRows.slice(i, i + batchSize) for a file of n parsed rows: a contiguous run of
\* rows, written as its first and its last row.
Batch(dataset_id, i, n) ==
  [first |-> CsvRow(dataset_id, i),
   last  |-> CsvRow(dataset_id, Min(i + batchSize, n) - 1)]

RunLength(run) == run.last.data - run.first.data + 1

RunsOf(dataset_id) == {r \in csv_data : r.first.dataset_id = dataset_id}

RECURSIVE SumLengths(_)
SumLengths(runs) ==
  IF runs = {} THEN 0
  ELSE LET r == CHOOSE x \in runs : TRUE
       IN  RunLength(r) + SumLengths(runs \ {r})

\* number of csv_data rows stored for a dataset
StoredRows(dataset_id) == SumLengths(RunsOf(dataset_id))

\* the JSON bodies of upload/route.ts: 216-233 on success, {error} otherwise
UploadResponse(status, error, project_id, dataset_id, rows, endpoint, key) ==
  [status |-> status, error |-> error, project_id |-> project_id,
   dataset_id |-> dataset_id, rows |-> rows, endpoint |-> endpoint, key |-> key]

UploadFailure(status, error) == UploadResponse(status, error, NoId, NoId, 0, <<>>, NoKey)

NoResponse == UploadFailure(0, "")

UploadIdle ==
  [pc |-> "start", user |-> NoUser, projectId |-> NoId, file |-> NoFile,
   project |-> NoProject, i |-> 0, res |-> NoResponse]

\* the store after an earlier upload of seed.csv (2 rows) by u1 whose key has since
\* served DefaultMonthlyLimit - 1 requests
SeedProject == [id |-> SeedId, user_id |-> "u1", slug |-> ProjectSlug(SeedId)]

SeedDataset ==
  [id |-> SeedId, project_id |-> SeedId, name |-> DatasetName(FileNameSeed),
   original_filename |-> FileNameSeed, table_name |-> "csv_data", row_count |-> 2,
   file_size_bytes |-> 2048, file_url |-> StoragePath("u1", SeedId, FileNameSeed)]

SeedRows ==
  [first |-> [dataset_id |-> SeedId, row_number |-> 1, data |-> 0],
   last  |-> [dataset_id |-> SeedId, row_number |-> 2, data |-> 1]]

SeedRequestCount == DefaultMonthlyLimit - 1

SeedKey ==
  [id |-> SeedId, project_id |-> SeedId, name |-> "Default Key",
   key_prefix |-> <<"csv_live_", "id0", "...">>, key_hash |-> Sha256Hex(ApiKeyOf(SeedId)),
   request_count |-> SeedRequestCount, request_limit_per_month |-> DefaultMonthlyLimit,
   is_active |-> TRUE, last_used_at |-> SeedId]

\* a key of the seed project that was deactivated (api_keys.is_active = false)
InactiveId == -2

SeedInactiveKey ==
  [id |-> InactiveId, project_id |-> SeedId, name |-> "Default Key",
   key_prefix |-> <<"csv_live_", "id-2", "...">>,
   key_hash |-> Sha256Hex(ApiKeyOf(InactiveId)),
   request_count |-> 0, request_limit_per_month |-> DefaultMonthlyLimit,
   is_active |-> FALSE, last_used_at |-> SeedId]

\* ------------------------------------------------------ POST /api/upload
\* the handler returns: its locals die, the response stays with the caller
Done(u, res) ==
  up' = [up EXCEPT ![u] = [UploadIdle EXCEPT !.pc = "done", !.res = res]]

Goto(u, pc) == up' = [up EXCEPT ![u].pc = pc]

\* variant of UploadReceive: the file is stored before the row ceiling is checked
UploadReceiveStoresFirst(u) ==
  /\ up[u].pc = "start"
  /\ \E auth \in Users \cup {NoUser}, file \in Files, projectId \in {NoId, SeedId} :
       IF auth = NoUser
         THEN Done(u, UploadFailure(401, "Unauthorized")) /\ UNCHANGED storage
       ELSE IF file = NoFile
         THEN Done(u, UploadFailure(400, "No file uploaded")) /\ UNCHANGED storage
       ELSE IF file.size > MaxFileBytes
         THEN /\ Done(u, UploadFailure(400, "File too large. Maximum size is 10MB"))
              /\ UNCHANGED storage
       ELSE IF file.errors > 0
         THEN Done(u, UploadFailure(400, "CSV parsing failed")) /\ UNCHANGED storage
       ELSE IF file.rows > MaxRows
         THEN /\ storage' = storage \cup {StoragePath(auth, projectId, file.name)}
              /\ Done(u, UploadFailure(400, "Too many rows. Free tier supports up to 10,000 rows"))
       ELSE /\ up' = [up EXCEPT ![u] =
                       [@ EXCEPT !.pc = IF projectId # NoId THEN "selectProject" ELSE "countProjects",
                                 !.user = auth, !.projectId = projectId, !.file = file]]
            /\ UNCHANGED storage
  /\ UNCHANGED <<projects, datasets, csv_data, api_keys, usage_logs, qr, pl, ing, tc>>

\* lines 13-75: authenticate, read the form, validate and parse the file
UploadReceive(u) ==
  /\ up[u].pc = "start"
  /\ \E auth \in Users \cup {NoUser}, file \in Files, projectId \in {NoId, SeedId} :
       IF auth = NoUser
         THEN Done(u, UploadFailure(401, "Unauthorized"))
       ELSE IF file = NoFile
         THEN Done(u, UploadFailure(400, "No file uploaded"))
       ELSE IF file.size > MaxFileBytes
         THEN Done(u, UploadFailure(400, "File too large. Maximum size is 10MB"))
       ELSE IF file.errors > 0
         THEN Done(u, UploadFailure(400, "CSV parsing failed"))
       ELSE IF file.rows > MaxRows
         THEN Done(u, UploadFailure(400, "Too many rows. Free tier supports up to 10,000 rows"))
       ELSE up' = [up EXCEPT ![u] =
                     [@ EXCEPT !.pc = IF projectId # NoId THEN "selectProject" ELSE "countProjects",
                               !.user = auth, !.projectId = projectId, !.file = file]]
  /\ UNCHANGED <<db, qr, pl, ing, tc>>

\* variant of UploadSelectProject: the project is looked up by id alone
UploadSelectProjectAnyOwner(u) ==
  /\ up[u].pc = "selectProject"
  /\ LET found == {p \in projects : p.id = up[u].projectId}
     IN  IF found = {}
           THEN Done(u, UploadFailure(500, "Internal server error"))
           ELSE up' = [up EXCEPT ![u] =
                         [@ EXCEPT !.pc = "storeFile", !.project = CHOOSE p \in found : TRUE]]
  /\ UNCHANGED <<db, qr, pl, ing, tc>>

\* lines 79-87, and line 132 on a null project (TypeError, caught at 235)
UploadSelectProject(u) ==
  /\ up[u].pc = "selectProject"
  /\ LET found == {p \in projects : p.id = up[u].projectId /\ p.user_id = up[u].user}
     IN  IF found = {}
           THEN Done(u, UploadFailure(500, "Internal server error"))
           ELSE up' = [up EXCEPT ![u] =
                         [@ EXCEPT !.pc = "storeFile", !.project = CHOOSE p \in found : TRUE]]
  /\ UNCHANGED <<db, qr, pl, ing, tc>>

\* lines 90-96
UploadCountProjects(u) ==
  /\ up[u].pc = "countProjects"
  /\ LET projectCount == Cardinality({p \in projects : p.user_id = up[u].user})
     IN  Goto(u, IF projectCount >= 1 THEN "selectExisting" ELSE "createProject")
  /\ UNCHANGED <<db, qr, pl, ing, tc>>

\* lines 97-107: .single() yields a row only when exactly one matches
UploadSelectExisting(u) ==
  /\ up[u].pc = "selectExisting"
  /\ LET mine == {p \in projects : p.user_id = up[u].user}
     IN  IF Cardinality(mine) = 1
           THEN up' = [up EXCEPT ![u] =
                         [@ EXCEPT !.pc = "storeFile", !.project = CHOOSE p \in mine : TRUE]]
           ELSE Done(u, UploadFailure(500, "Failed to access existing project"))
  /\ UNCHANGED <<db, qr, pl, ing, tc>>

\* lines 109-128
UploadCreateProject(u) ==
  /\ up[u].pc = "createProject"
  /\ \/ LET newProject == [id |-> u, user_id |-> up[u].user, slug |-> ProjectSlug(u)]
        IN  /\ projects' = projects \cup {newProject}
            /\ up' = [up EXCEPT ![u] = [@ EXCEPT !.pc = "storeFile", !.project = newProject]]
     \/ /\ Done(u, UploadFailure(500, "Failed to create project"))
        /\ UNCHANGED projects
  /\ UNCHANGED <<storage, datasets, csv_data, api_keys, usage_logs, qr, pl, ing, tc>>

\* lines 131-143
UploadStoreFile(u) ==
  /\ up[u].pc = "storeFile"
  /\ \/ /\ storage' = storage \cup {StoragePath(up[u].user, up[u].project.id, up[u].file.name)}
        /\ Goto(u, "createDataset")
     \/ /\ Done(u, UploadFailure(500, "Failed to upload file"))
        /\ UNCHANGED storage
  /\ UNCHANGED <<projects, datasets, csv_data, api_keys, usage_logs, qr, pl, ing, tc>>

\* lines 145-165 (and the loop test of line 176 before the first batch)
UploadCreateDataset(u) ==
  /\ up[u].pc = "createDataset"
  /\ \/ /\ datasets' = datasets \cup
             {[id |-> u, project_id |-> up[u].project.id,
               name |-> DatasetName(up[u].file.name),
               original_filename |-> up[u].file.name, table_name |-> "csv_data",
               row_count |-> up[u].file.rows, file_size_bytes |-> up[u].file.size,
               file_url |-> StoragePath(up[u].user, up[u].project.id, up[u].file.name)]}
        /\ up' = [up EXCEPT ![u] =
                    [@ EXCEPT !.pc = IF 0 < up[u].file.rows THEN "insertBatch" ELSE "issueKey",
                              !.i = 0]]
     \/ /\ Done(u, UploadFailure(500, "Failed to create dataset"))
        /\ UNCHANGED datasets
  /\ UNCHANGED <<projects, storage, csv_data, api_keys, usage_logs, qr, pl, ing, tc>>

\* lines 176-188: one iteration of the batch loop. The insert is acknowledged,
\* returns insertError, or throws (caught at 235 without any cleanup).
UploadInsertBatch(u) ==
  /\ up[u].pc = "insertBatch"
  /\ \/ /\ csv_data' = csv_data \cup {Batch(u, up[u].i, up[u].file.rows)}
        /\ up' = [up EXCEPT ![u] =
                    [@ EXCEPT !.i = @ + batchSize,
                              !.pc = IF up[u].i + batchSize < up[u].file.rows
                                       THEN "insertBatch" ELSE "issueKey"]]
     \/ /\ Goto(u, "cleanUp")
        /\ UNCHANGED csv_data
     \/ /\ Done(u, UploadFailure(500, "Internal server error"))
        /\ UNCHANGED csv_data
  /\ UNCHANGED <<projects, storage, datasets, api_keys, usage_logs, qr, pl, ing, tc>>

\* variant of DeleteDataset: no cascade to csv_data
DeleteDatasetRecordOnly(dataset_id) ==
  /\ datasets' = {d \in datasets : d.id # dataset_id}
  /\ UNCHANGED csv_data

\* lines 184-186: delete the dataset record; csv_data.dataset_id is declared
\* ON DELETE CASCADE (supabase-schema.sql 79)
DeleteDataset(dataset_id) ==
  /\ datasets' = {d \in datasets : d.id # dataset_id}
  /\ csv_data' = {r \in csv_data : r.first.dataset_id # dataset_id}

\* (the loop index i stays readable after the return: how far the loop had got)
UploadCleanUp(u) ==
  /\ up[u].pc = "cleanUp"
  /\ DeleteDataset(u)
  /\ up' = [up EXCEPT ![u] =
              [UploadIdle EXCEPT !.pc = "done", !.i = up[u].i,
                                 !.res = UploadFailure(500, "Failed to store CSV data")]]
  /\ UNCHANGED <<projects, storage, api_keys, usage_logs, qr, pl, ing, tc>>

\* lines 190-233: the api_keys insert may fail; the error is only logged (211-213)
UploadIssueKey(u) ==
  /\ up[u].pc = "issueKey"
  /\ LET apiKey == ApiKeyOf(u)
     IN  /\ \/ api_keys' = api_keys \cup
                 {[id |-> u, project_id |-> up[u].project.id, name |-> "Default Key",
                   key_prefix |-> KeyPrefix(apiKey), key_hash |-> Sha256Hex(apiKey),
                   request_count |-> 0, request_limit_per_month |-> DefaultMonthlyLimit,
                   is_active |-> TRUE, last_used_at |-> NoId]}
            \/ UNCHANGED api_keys
         /\ Done(u, UploadResponse(200, "", up[u].project.id, u, up[u].file.rows,
                                   EndpointPath(up[u].project.slug,
                                                DatasetName(up[u].file.name)),
                                   apiKey))
  /\ UNCHANGED <<projects, storage, datasets, csv_data, usage_logs, qr, pl, ing, tc>>

Upload(u) ==
  \/ UploadReceive(u)
  \/ UploadSelectProject(u)
  \/ UploadCountProjects(u)
  \/ UploadSelectExisting(u)
  \/ UploadCreateProject(u)
  \/ UploadStoreFile(u)
  \/ UploadCreateDataset(u)
  \/ UploadInsertBatch(u)
  \/ UploadCleanUp(u)
  \/ UploadIssueKey(u)

\* ------------------------------------- GET /api/v1/[project]/[dataset]
PresentedKeys == {ApiKeyOf(SeedId), ApiKeyOf(1), ApiKeyOf(InactiveId)}
PathProjects == {ProjectSlug(SeedId), ProjectSlug(1)}
PathDatasets == {DatasetName(FileNameSeed), DatasetName(FileNameA)}

NoKeyData ==
  [id |-> NoId, project_id |-> NoId, request_count |-> 0,
   request_limit_per_month |-> 0, slug |-> <<>>]

NoDatasetInfo == [id |-> NoId, row_count |-> 0]

\* the JSON bodies of the v1 route: 330-344 on success, {success:false, error} otherwise
QueryResponse(status, error, dataset_id, returned, total) ==
  [success |-> TRUE, status |-> status, error |-> error, dataset_id |-> dataset_id,
   returned |-> returned, total |-> total]

QueryFailureWithRows(status, error) ==
  [QueryResponse(status, error, NoId, 1, 1) EXCEPT !.success = FALSE]

QueryFailure(status, error) ==
  [QueryResponse(status, error, NoId, 0, 0) EXCEPT !.success = FALSE]

NoQueryResponse == QueryFailure(0, "")

QueryIdle ==
  [pc |-> "start", apiKey |-> NoKey, project |-> <<>>, dataset |-> NoName,
   keyData |-> NoKeyData, ds |-> NoDatasetInfo, res |-> NoQueryResponse,
   logError |-> ""]

\* parseQueryParams (361-371) of a request without a query string
DefaultPage == 1
DefaultLimit == 100

\* the handler returns: its locals die; the caller keeps what it sent and received
QDone(q) ==
  qr' = [qr EXCEPT ![q] = [QueryIdle EXCEPT !.pc = "done", !.apiKey = qr[q].apiKey,
                                           !.res = qr[q].res]]

\* every error return of 247-306 first awaits logRequest
QFail(q, status, logError, error) ==
  qr' = [qr EXCEPT ![q] = [@ EXCEPT !.pc = "log", !.res = QueryFailure(status, error),
                                    !.logError = logError]]

\* lines 229-245: api_keys joined with projects, filtered by hash and is_active
LookupKey(key_hash) ==
  { [id |-> k.id, project_id |-> k.project_id, request_count |-> k.request_count,
     request_limit_per_month |-> k.request_limit_per_month, slug |-> p.slug] :
      <<k, p>> \in {kp \in api_keys \X projects :
                      /\ kp[1].key_hash = key_hash
                      /\ kp[1].is_active
                      /\ kp[2].id = kp[1].project_id} }

\* lines 208-271: header, key lookup, rate-limit check, project check
QAuthenticate(q) ==
  /\ qr[q].pc = "start"
  /\ \E authKey \in PresentedKeys \cup {NoKey}, project \in PathProjects,
        dataset \in PathDatasets :
       IF authKey = NoKey
         THEN qr' = [qr EXCEPT ![q] =
                       [QueryIdle EXCEPT !.pc = "done",
                                         !.res = QueryFailure(401, "Missing or invalid API key")]]
       ELSE
         LET found == LookupKey(Sha256Hex(authKey))
             req == [qr[q] EXCEPT !.apiKey = authKey, !.project = project, !.dataset = dataset]
         IN  IF Cardinality(found) # 1
               THEN qr' = [qr EXCEPT ![q] =
                             [req EXCEPT !.pc = "log", !.logError = "Invalid API key",
                                         !.res = QueryFailure(401, "Invalid or inactive API key")]]
             ELSE
               LET keyData == CHOOSE k \in found : TRUE
                   known == [req EXCEPT !.keyData = keyData]
               IN  IF keyData.request_count >= keyData.request_limit_per_month
                     THEN qr' = [qr EXCEPT ![q] =
                                   [known EXCEPT !.pc = "log", !.logError = "Rate limit exceeded",
                                                 !.res = QueryFailure(429, "Monthly API limit exceeded")]]
                   ELSE IF keyData.slug # project
                     THEN qr' = [qr EXCEPT ![q] =
                                   [known EXCEPT !.pc = "log", !.logError = "Project mismatch",
                                                 !.res = QueryFailure(403, "API key does not match project")]]
                   ELSE qr' = [qr EXCEPT ![q] = [known EXCEPT !.pc = "getDataset"]]
  /\ UNCHANGED <<db, up, pl, ing, tc>>

\* variant of QGetDataset: the dataset is looked up by name alone
QGetDatasetAnyProject(q) ==
  /\ qr[q].pc = "getDataset"
  /\ LET found == {d \in datasets : d.name = qr[q].dataset}
     IN  IF Cardinality(found) # 1
           THEN QFail(q, 404, "Dataset not found", "Dataset not found")
           ELSE LET d == CHOOSE x \in found : TRUE
                IN  qr' = [qr EXCEPT ![q] =
                             [@ EXCEPT !.pc = "executeQuery",
                                       !.ds = [id |-> d.id, row_count |-> d.row_count]]]
  /\ UNCHANGED <<db, up, pl, ing, tc>>

\* lines 273-287: .single() yields a row only when exactly one matches
QGetDataset(q) ==
  /\ qr[q].pc = "getDataset"
  /\ LET found == {d \in datasets : /\ d.project_id = qr[q].keyData.project_id
                                    /\ d.name = qr[q].dataset}
     IN  IF Cardinality(found) # 1
           THEN QFail(q, 404, "Dataset not found", "Dataset not found")
           ELSE LET d == CHOOSE x \in found : TRUE
                IN  qr' = [qr EXCEPT ![q] =
                             [@ EXCEPT !.pc = "executeQuery",
                                       !.ds = [id |-> d.id, row_count |-> d.row_count]]]
  /\ UNCHANGED <<db, up, pl, ing, tc>>

\* variant of QExecute: a failed execution goes on to the usage update
QExecuteChargesFailure(q) ==
  /\ qr[q].pc = "executeQuery"
  /\ \/ LET count == StoredRows(qr[q].ds.id)
            from == (DefaultPage - 1) * DefaultLimit
            to == from + DefaultLimit - 1
            returned == IF count > from THEN Min(count - 1, to) - from + 1 ELSE 0
        IN  qr' = [qr EXCEPT ![q] =
                     [@ EXCEPT !.pc = "updateUsage",
                               !.res = QueryResponse(200, "", qr[q].ds.id, returned,
                                                     IF count # 0 THEN count
                                                     ELSE qr[q].ds.row_count)]]
     \/ qr' = [qr EXCEPT ![q] =
                 [@ EXCEPT !.pc = "updateUsage", !.logError = "query error",
                           !.res = QueryFailure(500, "Query execution failed")]]
  /\ UNCHANGED <<db, up, pl, ing, tc>>

\* lines 289-306 with executeQuery (392-445) on the default plan: rows of the dataset
\* by row_number, range(0, limit - 1), exact count; or the store reports an error
QExecute(q) ==
  /\ qr[q].pc = "executeQuery"
  /\ \/ LET count == StoredRows(qr[q].ds.id)
            from == (DefaultPage - 1) * DefaultLimit
            to == from + DefaultLimit - 1
            returned == IF count > from THEN Min(count - 1, to) - from + 1 ELSE 0
        IN  qr' = [qr EXCEPT ![q] =
                     [@ EXCEPT !.pc = "updateUsage",
                               !.res = QueryResponse(200, "", qr[q].ds.id, returned,
                                                     IF count # 0 THEN count
                                                     ELSE qr[q].ds.row_count)]]
     \/ QFail(q, 500, "query error", "Query execution failed")
  /\ UNCHANGED <<db, up, pl, ing, tc>>

\* lines 308-315: writes the count read at 230 plus one
QUpdateUsage(q) ==
  /\ qr[q].pc = "updateUsage"
  /\ api_keys' = { IF k.id = qr[q].keyData.id
                     THEN [k EXCEPT !.request_count = qr[q].keyData.request_count + 1,
                                    !.last_used_at = q]
                     ELSE k : k \in api_keys }
  /\ qr' = [qr EXCEPT ![q].pc = "log"]
  /\ UNCHANGED <<projects, storage, datasets, csv_data, usage_logs, up, pl, ing, tc>>

\* queryParams = null of logRequest
NoQueryParams == [page |-> 0, limit |-> 0]

\* logRequest (447-473): the insert may fail; the failure is swallowed
LogEntry(q) ==
  [api_key_id |-> qr[q].keyData.id, project_id |-> qr[q].keyData.project_id,
   endpoint |-> EndpointPath(qr[q].project, qr[q].dataset), method |-> "GET",
   status_code |-> qr[q].res.status, error_message |-> qr[q].logError,
   query_params |-> IF qr[q].res.status = 200
                      THEN [page |-> DefaultPage, limit |-> DefaultLimit]
                      ELSE NoQueryParams]

QLogFailureSurfaces(q) ==
  /\ qr[q].pc = "log"
  /\ \/ /\ usage_logs' = usage_logs (+) SetToBag({LogEntry(q)})
        /\ QDone(q)
     \/ /\ UNCHANGED usage_logs
        /\ qr' = [qr EXCEPT ![q] = [QueryIdle EXCEPT !.pc = "done", !.apiKey = qr[q].apiKey,
                                                     !.res = QueryFailure(500, "Failed to log request")]]
  /\ UNCHANGED <<projects, storage, datasets, csv_data, api_keys, up, pl, ing, tc>>

QLog(q) ==
  /\ qr[q].pc = "log"
  /\ \/ usage_logs' = usage_logs (+) SetToBag({LogEntry(q)})
     \/ UNCHANGED usage_logs
  /\ QDone(q)
  /\ UNCHANGED <<projects, storage, datasets, csv_data, api_keys, up, pl, ing, tc>>

Query(q) ==
  \/ QAuthenticate(q)
  \/ QGetDataset(q)
  \/ QExecute(q)
  \/ QUpdateUsage(q)
  \/ QLog(q)

\* ------------------------------------ the query plan (v1 route, 361-445)
\* Values of the query string and of csv_data.data are sequences of characters.
\* searchParams.get of a parameter that is absent; rangeVal.min of a range without min
Null == <<"null">>

\* JavaScript numbers: the integers, NaN and Infinity
Number(n) == [kind |-> "int", v |-> n]
NaN == [kind |-> "NaN", v |-> 0]
Infinity == [kind |-> "Infinity", v |-> 0]

DigitChars == <<"0","1","2","3","4","5","6","7","8","9">>
DigitValue(c) == (CHOOSE i \in 1..Len(DigitChars) : DigitChars[i] = c) - 1

RECURSIVE DigitsValue(_, _, _)
DigitsValue(s, i, acc) ==
  IF i > Len(s) \/ s[i] \notin Digits THEN acc
  ELSE DigitsValue(s, i + 1, acc * 10 + DigitValue(s[i]))

\* parseInt(s): an optional sign, then the longest run of digits; NaN without a digit
parseInt(s) ==
  LET start == IF Len(s) > 0 /\ s[1] \in {"-", "+"} THEN 2 ELSE 1
      magnitude == DigitsValue(s, start, 0)
  IN  IF start > Len(s) \/ s[start] \notin Digits THEN NaN
      ELSE IF s[1] = "-" THEN Number(-magnitude)
      ELSE Number(magnitude)

\* Math.min: NaN when either argument is NaN
MathMin(a, b) ==
  IF a.kind = "NaN" \/ b.kind = "NaN" THEN NaN
  ELSE IF a.v < b.v THEN a ELSE b

\* value || fallback on strings: null and '' are falsy
OrElse(value, fallback) == IF value = Null \/ value = <<>> THEN fallback ELSE value

MaxLimit == 1000

\* the request's query string: the reserved parameters and, in the order in which
\* they were written, the remaining key=value pairs
SearchParams(page, limit, sort, order, q, fields, others) ==
  [page |-> page, limit |-> limit, sort |-> sort, order |-> order, q |-> q,
   fields |-> fields, others |-> others]

reserved == {<<"page">>, <<"limit">>, <<"sort">>, <<"order">>, <<"q">>, <<"fields">>}

\* key.endsWith(suffix), a key being a column name followed by its suffixes
endsWith(key, suffix) == Len(key) > 0 /\ key[Len(key)] = suffix

\* key.replace(/_min$|_max$/, '')
StripSuffix(key) == SubSeq(key, 1, Len(key) - 1)

\* the two shapes of params.filters[field]: a string, or an object {min?, max?}
EqualTo(value) == [isRange |-> FALSE, value |-> value, min |-> Null, max |-> Null]
RangeOf(min, max) == [isRange |-> TRUE, value |-> Null, min |-> min, max |-> max]

NoFilters == [f \in {} |-> EqualTo(Null)]

SetFilter(filters, field, entry) ==
  [f \in DOMAIN filters \cup {field} |-> IF f = field THEN entry ELSE filters[f]]

\* one call of the forEach callback (375-386). params.filters[field][...] = value on
\* a non-empty string throws a TypeError, the module being strict-mode code
AddFilter(acc, key, value) ==
  IF acc.thrown \/ key \in reserved THEN acc
  ELSE IF endsWith(key, "_min") \/ endsWith(key, "_max")
    THEN LET field == StripSuffix(key)
             falsy == \/ field \notin DOMAIN acc.filters
                      \/ (~acc.filters[field].isRange /\ acc.filters[field].value = <<>>)
             current == IF falsy THEN RangeOf(Null, Null) ELSE acc.filters[field]
         IN  IF ~current.isRange THEN [acc EXCEPT !.thrown = TRUE]
             ELSE [acc EXCEPT !.filters =
                     SetFilter(@, field,
                               IF endsWith(key, "_min") THEN [current EXCEPT !.min = value]
                               ELSE [current EXCEPT !.max = value])]
  ELSE [acc EXCEPT !.filters = SetFilter(@, key, EqualTo(value))]

RECURSIVE ForEach(_, _, _)
ForEach(others, i, acc) ==
  IF i > Len(others) THEN acc
  ELSE ForEach(others, i + 1, AddFilter(acc, others[i][1], others[i][2]))

\* value.split(','), a value being column names, "," and " " in a row
RECURSIVE Split(_)
Split(value) ==
  IF \A i \in 1..Len(value) : value[i] # ","
    THEN <<value>>
  ELSE LET comma == CHOOSE i \in 1..Len(value) :
                      value[i] = "," /\ \A j \in 1..(i - 1) : value[j] # ","
       IN  <<SubSeq(value, 1, comma - 1)>> \o Split(SubSeq(value, comma + 1, Len(value)))

\* f.trim()
RECURSIVE Trim(_)
Trim(f) ==
  IF f # <<>> /\ f[1] = " " THEN Trim(Tail(f))
  ELSE IF f # <<>> /\ f[Len(f)] = " " THEN Trim(SubSeq(f, 1, Len(f) - 1))
  ELSE f

\* searchParams.get('fields')?.split(',').map(f => f.trim()) (369); the result of
\* ?. on null is written Null
FieldList(value) ==
  IF value = Null THEN Null
  ELSE [i \in 1..Len(Split(value)) |-> Trim(Split(value)[i])]

\* parseQueryParams (361-389); thrown = the TypeError left the function
parseQueryParams(searchParams) ==
  LET folded == ForEach(searchParams.others, 1, [thrown |-> FALSE, filters |-> NoFilters])
  IN  [page |-> parseInt(OrElse(searchParams.page, <<"1">>)),
       limit |-> MathMin(parseInt(OrElse(searchParams.limit, <<"1","0","0">>)),
                         Number(MaxLimit)),
       sort |-> searchParams.sort,
       order |-> OrElse(searchParams.order, <<"a","s","c">>),
       search |-> searchParams.q,
       fields |-> FieldList(searchParams.fields),
       filters |-> folded.filters,
       thrown |-> folded.thrown]

\* data->>field: the value as text, null for a key the row does not have
JsonText(data, field) == IF field \in DOMAIN data THEN data[field] ELSE Null

\* PostgreSQL compares the text of data->>field with the text of the bound,
\* character by character (digits, on which every collation agrees)
RECURSIVE TextLessEq(_, _)
TextLessEq(a, b) ==
  IF a = <<>> THEN TRUE
  ELSE IF b = <<>> THEN FALSE
  ELSE IF a[1] = b[1] THEN TextLessEq(Tail(a), Tail(b))
  ELSE DigitValue(a[1]) < DigitValue(b[1])

\* one entry of params.filters as executeQuery adds it to the query (402-417);
\* a comparison with null is not true
Passes(data, field, entry) ==
  LET text == JsonText(data, field)
  IN  IF entry.isRange
        THEN /\ (entry.min # Null /\ entry.min # <<>>) =>
                  (text # Null /\ TextLessEq(entry.min, text))
             /\ (entry.max # Null /\ entry.max # <<>>) =>
                  (text # Null /\ TextLessEq(text, entry.max))
      ELSE text # Null /\ text = entry.value

\* the columns the search goes over (421-422)
SearchColumns(schema) == {key \in DOMAIN schema : schema[key] \in {"text", "string"}}

\* text ILIKE %pattern%
ilike(text, pattern) ==
  /\ text # Null
  /\ \E i \in 1..(Len(text) - Len(pattern) + 1) :
       toLowerCase(SubSeq(text, i, i + Len(pattern) - 1)) = toLowerCase(pattern)

\* the .or(...) of 419-429: added only for a non-empty q and a non-empty column list
Searched(data, params, schema) ==
  (params.search # Null /\ params.search # <<>> /\ SearchColumns(schema) # {}) =>
    \E key \in SearchColumns(schema) : ilike(JsonText(data, key), params.search)

\* the rows the filters and the search leave; count: 'exact' is their number
Selected(rows, params, schema) ==
  {r \in rows : /\ \A field \in DOMAIN params.filters :
                     Passes(r.data, field, params.filters[field])
                /\ Searched(r.data, params, schema)}

\* ORDER BY row_number ASC (436): row numbers are distinct within a dataset
RECURSIVE OrderByRowNumber(_)
OrderByRowNumber(rows) ==
  IF rows = {} THEN <<>>
  ELSE LET first == CHOOSE r \in rows : \A x \in rows : r.row_number <= x.row_number
       IN  <<first>> \o OrderByRowNumber(rows \ {first})

\* r may stand before x under ORDER BY data->>sort: rows that are equal under the
\* key, or both null, come in any order; nulls come last ascending, first descending
MayPrecede(r, x, sort, ascending) ==
  LET a == JsonText(r.data, sort)
      b == JsonText(x.data, sort)
  IN  IF a = Null \/ b = Null THEN a = b \/ ((b = Null) = ascending)
      ELSE IF ascending THEN TextLessEq(a, b) ELSE TextLessEq(b, a)

\* every order ORDER BY data->>sort (433) may produce
RECURSIVE OrderBy(_, _, _)
OrderBy(rows, sort, ascending) ==
  IF rows = {} THEN {<<>>}
  ELSE UNION { { <<first>> \o rest : rest \in OrderBy(rows \ {first}, sort, ascending) } :
               first \in {r \in rows : \A x \in rows : MayPrecede(r, x, sort, ascending)} }

Orders(rows, params) ==
  IF params.sort # Null /\ params.sort # <<>>
    THEN OrderBy(rows, params.sort, params.order = <<"a","s","c">>)
  ELSE {OrderByRowNumber(rows)}

\* arithmetic of 439-440 on JavaScript numbers
Times(a, b) == IF a.kind = "int" /\ b.kind = "int" THEN Number(a.v * b.v) ELSE NaN
Plus(a, b) == IF a.kind = "int" /\ b.kind = "int" THEN Number(a.v + b.v) ELSE NaN

RangeFromPage(params) == Times(params.page, params.limit)

RangeFrom(params) == Times(Plus(params.page, Number(-1)), params.limit)
RangeTo(params) == Plus(Plus(RangeFrom(params), params.limit), Number(-1))

\* rows from .. to (zero-based, inclusive) of an ordered result
Slice(ordered, from, to) == SubSeq(ordered, from + 1, Min(to + 1, Len(ordered)))

MathFloorDiv(total, limit) ==
  IF limit.kind # "int" THEN NaN
  ELSE IF limit.v = 0 THEN (IF total = 0 THEN NaN ELSE Infinity)
  ELSE Number(total \div limit.v)

\* Math.ceil(total / limit) for total >= 0 (337)
MathCeilDiv(total, limit) ==
  IF limit.kind # "int" THEN NaN
  ELSE IF limit.v = 0 THEN (IF total = 0 THEN NaN ELSE Infinity)
  ELSE IF limit.v < 0 THEN Number(-(total \div (-limit.v)))
  ELSE IF total % limit.v = 0 THEN Number(total \div limit.v)
  ELSE Number((total \div limit.v) + 1)

\* the datasets the plan is run against: schema_json as the upload wrote it and the
\* rows of csv_data, PlanRows of them
PlanRows == 4

Names == <<<<"A","d","a">>, <<"d","a","n">>, <<"S","T","A","N">>, <<"D","a","n","a">>,
           <<"C","a","t">>>>
Prices == <<<<"9">>, <<"1","0">>, <<"1","0","0">>, <<"5","0">>, <<"7">>>>
Codes == <<<<"1","1">>, <<"2","2">>, <<"3","3">>, <<"4","4">>, <<"5","5">>>>

Pick(values, i) == values[((i - 1) % Len(values)) + 1]

ColName == <<"name">>
ColPrice == <<"price">>
ColCode == <<"code">>
ColNoSuch == <<"nosuch">>

TextDataset ==
  [row_count |-> PlanRows,
   schema_json |-> (ColName :> "text") @@ (ColPrice :> "integer"),
   rows |-> { [row_number |-> i,
               data |-> (ColName :> Pick(Names, i)) @@ (ColPrice :> Pick(Prices, i))] :
              i \in 1..PlanRows }]

NumericDataset ==
  [row_count |-> PlanRows,
   schema_json |-> (ColCode :> "integer") @@ (ColPrice :> "integer"),
   rows |-> { [row_number |-> i,
               data |-> (ColCode :> Pick(Codes, i)) @@ (ColPrice :> Pick(Prices, i))] :
              i \in 1..PlanRows }]

PlanDatasets == {TextDataset, NumericDataset}

\* the query strings the plan is run on
PageParams == {Null, <<"0">>, <<"-","1">>, <<"a","b","c">>, <<"2">>}
LimitParams ==
  {Null, <<"0">>, <<"-","5">>, <<"a","b","c">>, <<"1">>, <<"2">>, <<"2","0","0","0">>}
SortParams == {Null, ColPrice, ColNoSuch}
OrderParams == {Null, <<"d","e","s","c">>}
SearchTerms == {Null, <<"A","N">>, <<"9">>}
FieldsParams == {Null, <<"price", ",", " ", "code">>}
FilterParams ==
  { <<>>,
    << <<ColPrice \o <<"_min">>, <<"5">>>>, <<ColPrice \o <<"_max">>, <<"1","0">>>> >>,
    << <<ColPrice \o <<"_min">>, <<"5","0","0">>>> >>,
    << <<ColPrice, <<"1","0">>>> >>,
    << <<ColPrice, <<"1","1">>>> >>,
    << <<ColPrice, <<"1","0">>>>, <<ColPrice \o <<"_min">>, <<"5","0">>>> >>,
    << <<ColPrice \o <<"_min">>, <<"5","0">>>>, <<ColPrice, <<"1","0">>>> >>,
    << <<ColName, <<"d","a","n">>>>, <<ColPrice \o <<"_max">>, <<"9">>>> >> }

Requests ==
  { SearchParams(page, limit, sort, order, q, fields, others) :
      page \in PageParams, limit \in LimitParams, sort \in SortParams,
      order \in OrderParams, q \in SearchTerms, fields \in FieldsParams,
      others \in FilterParams }

\* the decimal digits of n >= 0
RECURSIVE ToChars(_)
ToChars(n) ==
  IF n < 10 THEN <<DigitChars[n + 1]>>
  ELSE ToChars(n \div 10) \o <<DigitChars[(n % 10) + 1]>>

NoParams ==
  [page |-> NaN, limit |-> NaN, sort |-> Null, order |-> Null, search |-> Null,
   fields |-> Null, filters |-> NoFilters, thrown |-> FALSE]

NoPagination == [page |-> NaN, limit |-> NaN, total |-> 0, totalPages |-> NaN]

\* the JSON body of 330-344 and of the error returns 302-305 and 350-357
PlanResponse(status, error, data, pagination) ==
  [success |-> status = 200, status |-> status, error |-> error, data |-> data,
   pagination |-> pagination]

PlanFailure(status, error) == PlanResponse(status, error, <<>>, NoPagination)

NoPlanResponse == PlanFailure(0, "")

\* dataset: the record found at 273-279; rows: the rows of the query result, in
\* its order; seen: the row numbers of the pages a client has walked so far
PlanStart(dataset, searchParams) ==
  [pc |-> "parse", dataset |-> dataset, searchParams |-> searchParams,
   params |-> NoParams, rows |-> <<>>, res |-> NoPlanResponse,
   firstPage |-> searchParams.page, seen |-> <<>>]

PlanIdle == [PlanStart(TextDataset, SearchParams(Null, Null, Null, Null, Null, Null, <<>>))
               EXCEPT !.pc = "idle"]

\* lines 289-291; a TypeError thrown by parseQueryParams is caught at 348-358
PlanParse ==
  /\ pl.pc = "parse"
  /\ LET params == parseQueryParams(pl.searchParams)
     IN  IF params.thrown
           THEN pl' = [pl EXCEPT !.pc = "done",
                                 !.res = PlanFailure(500, "Internal server error")]
         ELSE pl' = [pl EXCEPT !.pc = "execute", !.params = params]
  /\ UNCHANGED <<db, up, qr, ing, tc>>

\* .range(from, to) sends offset = from and limit = to - from + 1. The store rejects
\* an offset or limit that is not a non-negative integer; a limit of 0, and an
\* offset past the last row, are rejected by some versions of the store and
\* answered with no rows by others
RangeRejected(from, to, count) ==
  \/ from.kind # "int"
  \/ to.kind # "int"
  \/ from.v < 0
  \/ to.v < from.v
  \/ (from.v > 0 /\ from.v >= count)

RangeServed(from, to) ==
  /\ from.kind = "int"
  /\ to.kind = "int"
  /\ from.v >= 0
  /\ to.v >= from.v - 1

\* lines 293-306 with executeQuery (392-445), and the response of 329-346
PlanExecute ==
  /\ pl.pc = "execute"
  /\ LET selected == Selected(pl.dataset.rows, pl.params, pl.dataset.schema_json)
         count == Cardinality(selected)
         from == RangeFrom(pl.params)
         to == RangeTo(pl.params)
         total == IF count # 0 THEN count ELSE pl.dataset.row_count
     IN  \/ /\ RangeRejected(from, to, count)
            /\ pl' = [pl EXCEPT !.pc = "done",
                                !.res = PlanFailure(500, "Query execution failed")]
         \/ /\ RangeServed(from, to)
            /\ \E ordered \in Orders(selected, pl.params) :
                 LET rows == Slice(ordered, from.v, to.v)
                 IN  pl' = [pl EXCEPT
                              !.pc = "done",
                              !.rows = rows,
                              !.seen = @ \o [i \in 1..Len(rows) |-> rows[i].row_number],
                              !.res = PlanResponse(200, "",
                                        [i \in 1..Len(rows) |-> rows[i].data],
                                        [page |-> pl.params.page,
                                         limit |-> pl.params.limit,
                                         total |-> total,
                                         totalPages |-> MathCeilDiv(total, pl.params.limit)])]
  /\ UNCHANGED <<db, up, qr, ing, tc>>

\* the client asks for the next page of an unsorted result: the same query string
\* with page + 1
PlanNextPage ==
  /\ pl.pc = "done"
  /\ pl.res.status = 200
  /\ pl.searchParams.sort = Null
  /\ pl.res.pagination.page.kind = "int"
  /\ pl.res.pagination.totalPages.kind = "int"
  /\ pl.res.pagination.page.v >= 1
  /\ pl.res.pagination.page.v < pl.res.pagination.totalPages.v
  /\ pl' = [pl EXCEPT !.pc = "parse",
                      !.searchParams.page = ToChars(pl.res.pagination.page.v + 1),
                      !.params = NoParams, !.rows = <<>>, !.res = NoPlanResponse]
  /\ UNCHANGED <<db, up, qr, ing, tc>>

\* --------------------------------------------------------------- ingestion
\* A CSV file and the two readers of it: parseCSV (lib/csv/parser.ts), which the
\* upload page runs on the selected file, and POST (api/upload/route.ts), which
\* the server runs on the posted file. Each has its own type detector. Text is
\* a sequence of characters.

\* The scalars a reader hands to its detector: strings, null and undefined here,
\* [t |-> "number", n |-> a number] and [t |-> "boolean", b |-> TRUE or FALSE].
Str(s) == [t |-> "string", s |-> s]
JsNull == [t |-> "null"]
Undefined == [t |-> "undefined"]

\* Number.prototype.toString; a number with a fraction is
\* [kind |-> "float", negative, v |-> whole part, frac |-> fraction digits]
NumberToString(n) ==
  CASE n.kind = "NaN" -> <<"N", "a", "N">>
    [] n.kind = "Infinity" -> <<"I", "n", "f", "i", "n", "i", "t", "y">>
    [] n.kind = "int" -> IF n.v < 0 THEN <<"-">> \o ToChars(-n.v) ELSE ToChars(n.v)
    [] OTHER -> (IF n.negative THEN <<"-">> ELSE <<>>) \o ToChars(n.v) \o <<".">> \o n.frac

\* String(value)
String(value) ==
  CASE value.t = "string" -> value.s
    [] value.t = "number" -> NumberToString(value.n)
    [] value.t = "boolean" -> IF value.b THEN <<"t", "r", "u", "e">>
                              ELSE <<"f", "a", "l", "s", "e">>
    [] value.t = "null" -> <<"n", "u", "l", "l">>
    [] OTHER -> <<"u", "n", "d", "e", "f", "i", "n", "e", "d">>

\* the length of the run of digits of s that starts at position i
RECURSIVE DigitRun(_, _)
DigitRun(s, i) ==
  IF i > Len(s) \/ s[i] \notin Digits THEN 0 ELSE 1 + DigitRun(s, i + 1)

RECURSIVE StripZeros(_)
StripZeros(d) ==
  IF d # <<>> /\ d[Len(d)] = "0" THEN StripZeros(SubSeq(d, 1, Len(d) - 1)) ELSE d

\* The longest decimal literal at the start of s, blanks aside: its value and
\* the number of characters of the trimmed text it takes. A sign, digits, and
\* a fraction; exponents and the word Infinity do not occur in the files of the
\* model.
ReadFloat(s) ==
  LET t == Trim(s)
      negative == t # <<>> /\ t[1] = "-"
      start == IF t # <<>> /\ t[1] \in {"-", "+"} THEN 2 ELSE 1
      whole == DigitRun(t, start)
      dot == start + whole
      hasDot == dot <= Len(t) /\ t[dot] = "."
      frac == IF hasDot THEN DigitRun(t, dot + 1) ELSE 0
      digits == StripZeros(SubSeq(t, dot + 1, dot + frac))
      magnitude == DigitsValue(t, start, 0)
  IN  IF whole = 0 /\ frac = 0 THEN [num |-> NaN, read |-> 0]
      ELSE [num |-> IF digits # <<>>
                      THEN [kind |-> "float", negative |-> negative,
                            v |-> magnitude, frac |-> digits]
                    ELSE IF negative THEN Number(-magnitude)
                    ELSE Number(magnitude),
            read |-> (dot - 1) + (IF hasDot THEN 1 + frac ELSE 0)]

parseFloat(s) == ReadFloat(s).num

\* Number(value): the whole trimmed text must be the literal; '' is 0
ToNumber(value) ==
  CASE value.t = "number" -> value.n
    [] value.t = "boolean" -> IF value.b THEN Number(1) ELSE Number(0)
    [] value.t = "null" -> Number(0)
    [] value.t = "string" ->
         IF Trim(value.s) = <<>> THEN Number(0)
         ELSE IF ReadFloat(value.s).read = Len(Trim(value.s)) THEN ReadFloat(value.s).num
         ELSE NaN
    [] OTHER -> NaN

\* /^\d{a}sep\d{b}sep\d{c}$/
Separated(s, a, b, c, sep) ==
  /\ Len(s) = a + b + c + 2
  /\ \A i \in (1..Len(s)) \ {a + 1, a + b + 2} : s[i] \in Digits
  /\ s[a + 1] = sep /\ s[a + b + 2] = sep

\* Date.parse(s). A date in the ISO format is read the same everywhere: a time
\* when the month and the day are in range, NaN otherwise. A text without any
\* digit is NaN everywhere. For every other text the language leaves the
\* result to the engine: `lenient' engines read it as a date, others give NaN.
DateParse(s, lenient) ==
  IF Separated(s, 4, 2, 2, "-")
    THEN LET year == DigitsValue(s, 1, 0)
             month == DigitsValue(s, 6, 0)
             day == DigitsValue(s, 9, 0)
         IN  IF month \in 1..12 /\ day \in 1..31
               THEN Number(((year - 1970) * 12 + (month - 1)) * 31 + (day - 1))
             ELSE NaN
  ELSE IF \A i \in 1..Len(s) : s[i] \notin Digits THEN NaN
  ELSE IF lenient THEN Number(0)
  ELSE NaN

\* A column of values is a sequence of runs: n equal values in a row.
Run(value, n) == [value |-> value, n |-> n]

\* values.length
RECURSIVE Length(_)
Length(values) == IF values = <<>> THEN 0 ELSE Head(values).n + Length(Tail(values))

\* values.filter(v => v !== null && v !== undefined && v !== '')
NotEmpty(values) ==
  SelectSeq(values, LAMBDA r : r.value \notin {JsNull, Undefined, Str(<<>>)})

\* values.slice(0, end)
RECURSIVE SliceFirst(_, _)
SliceFirst(values, end) ==
  IF values = <<>> \/ end <= 0 THEN <<>>
  ELSE IF Head(values).n <= end
    THEN <<Head(values)>> \o SliceFirst(Tail(values), end - Head(values).n)
  ELSE <<Run(Head(values).value, end)>>

\* isValidDate (64-80): falsy values are no dates; then one of the four
\* datePatterns, then new Date(str).getTime()
isValidDate(value, lenient) ==
  LET falsy == \/ value.t \in {"null", "undefined"}
               \/ value.t = "string" /\ value.s = <<>>
               \/ value.t = "boolean" /\ ~value.b
               \/ value.t = "number" /\ value.n \in {NaN, Number(0)}
      str == Trim(String(value))
  IN  IF falsy THEN FALSE
      ELSE IF ~(\/ Separated(str, 4, 2, 2, "-") \/ Separated(str, 2, 2, 4, "/")
                \/ Separated(str, 2, 2, 4, "-") \/ Separated(str, 4, 2, 2, "/"))
        THEN FALSE
      ELSE DateParse(str, lenient).kind # "NaN"

\* ['true', 'false', 'yes', 'no', '1', '0']
BooleanWords ==
  {<<"t","r","u","e">>, <<"f","a","l","s","e">>, <<"y","e","s">>, <<"n","o">>,
   <<"1">>, <<"0">>}

\* isValidBoolean (82-89)
isValidBoolean(value) ==
  CASE value.t = "boolean" -> TRUE
    [] value.t = "number" -> value.n = Number(0) \/ value.n = Number(1)
    [] value.t = "string" ->
         Trim(toLowerCase(value.s)) \in BooleanWords \cup {<<"y">>, <<"n">>}
    [] OTHER -> FALSE

\* isValidInteger (41-52)
isValidInteger(value) ==
  CASE value.t = "number" -> value.n.kind = "int"
    [] value.t = "string" ->
         IF \E i \in 1..Len(value.s) : value.s[i] \in {"-", "/", "."}
           THEN FALSE
         ELSE LET num == parseFloat(value.s)
              IN  /\ num.kind # "NaN" /\ num.kind = "int"
                  /\ NumberToString(num) = Trim(value.s)
    [] OTHER -> FALSE

\* isValidNumber (54-61)
isValidNumber(value) ==
  CASE value.t = "number" -> value.n.kind # "NaN"
    [] value.t = "string" -> parseFloat(value.s).kind # "NaN"
    [] OTHER -> FALSE

SampleLimit == 100

\* detectColumnType (9-39)
detectColumnType(values, lenient) ==
  IF Length(values) = 0 THEN "TEXT"
  ELSE LET sampleValues == SliceFirst(NotEmpty(values), SampleLimit)
           samples == {sampleValues[i].value : i \in 1..Len(sampleValues)}
       IN  IF Length(sampleValues) = 0 THEN "TEXT"
           ELSE IF \A val \in samples : isValidDate(val, lenient) THEN "DATE"
           ELSE IF \A val \in samples : isValidBoolean(val) THEN "BOOLEAN"
           ELSE IF \A val \in samples : isValidInteger(val) THEN "INTEGER"
           ELSE IF \A val \in samples : isValidNumber(val) THEN "FLOAT"
           ELSE "TEXT"

\* name.replace(pattern, '_'), the pattern being every character outside `kept'
ReplaceOutside(name, kept) ==
  [i \in 1..Len(name) |-> IF name[i] \in kept THEN name[i] ELSE "_"]

\* name.replace(/^_+|_+$/g, '')
RECURSIVE StripUnderscores(_)
StripUnderscores(name) ==
  IF name # <<>> /\ name[1] = "_" THEN StripUnderscores(Tail(name))
  ELSE IF name # <<>> /\ name[Len(name)] = "_"
    THEN StripUnderscores(SubSeq(name, 1, Len(name) - 1))
  ELSE name

\* name.replace(/_{2,}/g, '_')
RECURSIVE CollapseUnderscores(_)
CollapseUnderscores(name) ==
  IF Len(name) < 2 THEN name
  ELSE IF name[1] = "_" /\ name[2] = "_" THEN CollapseUnderscores(Tail(name))
  ELSE <<name[1]>> \o CollapseUnderscores(Tail(name))

\* sanitizeColumnName (91-98)
sanitizeColumnName(name) ==
  LET sanitized == CollapseUnderscores(StripUnderscores(
                     ReplaceOutside(toLowerCase(name), LowerCaseLetters \cup Digits \cup {"_"})))
  IN  IF sanitized = <<>> THEN <<"c","o","l","u","m","n">> ELSE sanitized

\* transformHeader of POST (46-53)
transformHeader(header) ==
  StripUnderscores(ReplaceOutside(toLowerCase(Trim(header)), LowerCaseLetters \cup Digits))

\* emailRegex.test(s): /^[^\s@]+@[^\s@]+\.[^\s@]+$/
emailRegex(s) ==
  \E at \in 2..Len(s), dot \in 4..(Len(s) - 1) :
    /\ at + 1 < dot /\ s[at] = "@" /\ s[dot] = "."
    /\ \A i \in (1..Len(s)) \ {at} : s[i] \notin {" ", "@"}

\* urlRegex.test(s):
\* /^(https?:\/\/)?([\da-z\.-]+)\.([a-z\.]{2,6})([\/\w \.-]*)*\/?$/
urlRegex(s) ==
  LET UpperCaseLetters ==
        {"A","B","C","D","E","F","G","H","I","J","K","L","M",
         "N","O","P","Q","R","S","T","U","V","W","X","Y","Z"}
      body(b) ==
        \E dot \in 2..Len(b), end \in 3..Len(b) :
          /\ b[dot] = "." /\ (end - dot) \in 2..6
          /\ \A i \in 1..(dot - 1) : b[i] \in Digits \cup LowerCaseLetters \cup {".", "-"}
          /\ \A i \in (dot + 1)..end : b[i] \in LowerCaseLetters \cup {"."}
          /\ \A i \in (end + 1)..Len(b) :
               b[i] \in LowerCaseLetters \cup UpperCaseLetters \cup Digits
                          \cup {"_", "/", " ", ".", "-"}
  IN  \/ body(s)
      \/ \E scheme \in {<<"h","t","t","p",":","/","/">>,
                        <<"h","t","t","p","s",":","/","/">>} :
           /\ Len(s) >= Len(scheme) /\ SubSeq(s, 1, Len(scheme)) = scheme
           /\ body(SubSeq(s, Len(scheme) + 1, Len(s)))

\* detectType of the upload route (259-298)
detectType(samples, lenient) ==
  LET every == {samples[i].value : i \in 1..Len(samples)}
  IN  IF Length(samples) = 0 THEN "text"
      ELSE IF \A s \in every : s.t = "boolean" \/ toLowerCase(String(s)) \in BooleanWords
        THEN "boolean"
      ELSE IF \A s \in every : ToNumber(s).kind = "int" THEN "integer"
      ELSE IF \A s \in every : ToNumber(s).kind # "NaN" THEN "number"
      ELSE IF \A s \in every : DateParse(String(s), lenient).kind # "NaN" THEN "date"
      ELSE IF \A s \in every : emailRegex(String(s)) THEN "email"
      ELSE IF \A s \in every : urlRegex(String(s)) THEN "url"
      ELSE "text"

\* ------------------------------------------------------------------ files
\* A file is a header line and data lines. The data lines come in runs of n
\* equal lines, each line holding the run's value in every column; `short' adds
\* a last line that has one field fewer than the header line.
MaxRuns == 2

HeaderLines ==
  { << <<"p","r","i","c","e">> >>,
    << <<"p","r","i","c","e">>, <<"c","o","d","e">> >>,
    << <<"F","u","l","l"," ","N","a","m","e">>, <<"f","u","l","l","_","n","a","m","e">> >>,
    << <<"a","-","-","b">>, <<"#">> >>,
    << <<"c","o","d","e">>, <<"c","o","d","e">> >> }

CellTexts ==
  { <<>>, <<"0">>, <<"1">>, <<"4","2">>, <<"3",".","5">>,
    <<"2","0","2","4","-","0","1","-","1","5">>, <<"t","r","u","e">>,
    <<"a","@","b",".","c","o">>, <<"b",".","c","o">>, <<"a","b","c">> }

CsvFiles ==
  { [header |-> header, lines |-> lines, short |-> short] :
      header \in HeaderLines,
      lines \in UNION {[1..k -> {Run(cell, n) : cell \in CellTexts, n \in {1, SampleLimit}}] :
                         k \in 0..MaxRuns},
      short \in BOOLEAN }

\* What Papa.parse does with two equal header names depends on its version:
\* older ones keep both names in meta.fields and let the later column overwrite
\* the earlier one in each row, newer ones rename the later header.
PapaVersions == {"overwrite", "rename"}

\* dynamicTyping of Papa.parse: true/false, then numbers, then '' as null
parseDynamic(value) ==
  IF value = <<"t","r","u","e">> THEN [t |-> "boolean", b |-> TRUE]
  ELSE IF value = <<"f","a","l","s","e">> THEN [t |-> "boolean", b |-> FALSE]
  ELSE IF Trim(value) # <<>> /\ Trim(value)[1] # "+" /\ ReadFloat(value).read = Len(Trim(value))
    THEN [t |-> "number", n |-> parseFloat(value)]
  ELSE IF value = <<>> THEN JsNull
  ELSE Str(value)

\* Papa.parse with header: true and skipEmptyLines: true, and with the
\* transformHeader of POST and dynamicTyping when config says so: the field
\* names, the rows (functions from the field names to values), the number of
\* errors. A line without any character is skipped; a line with too few fields
\* stays in the data without the missing field and is reported as an error.
PapaParse(file, version, config) ==
  LET transformed == [i \in 1..Len(file.header) |->
                        IF config.transformHeader THEN transformHeader(file.header[i])
                        ELSE file.header[i]]
      renamed == [i \in 1..Len(transformed) |->
                    LET count == Cardinality({j \in 1..(i - 1) : transformed[j] = transformed[i]})
                    IN  IF count = 0 THEN transformed[i]
                        ELSE transformed[i] \o <<"_">> \o ToChars(count)]
      fields == IF version = "rename" THEN renamed ELSE transformed
      typed(cell) == IF config.dynamicTyping THEN parseDynamic(cell) ELSE Str(cell)
      kept == SelectSeq(file.lines, LAMBDA l : ~(Len(fields) = 1 /\ l.value = <<>>))
      rows == [i \in 1..Len(kept) |->
                 Run([name \in {fields[k] : k \in 1..Len(fields)} |-> typed(kept[i].value)],
                     kept[i].n)]
      shortRow == Run([name \in {fields[k] : k \in 1..(Len(fields) - 1)} |-> typed(<<"1">>)], 1)
      hasShort == file.short /\ Len(fields) > 1
  IN  [data |-> IF hasShort THEN Append(rows, shortRow) ELSE rows,
       fields |-> fields,
       errors |-> IF hasShort THEN 1 ELSE 0]

\* data.map(row => row[column]), undefined where the row has no such field
Column(data, column) ==
  [i \in 1..Len(data) |->
     Run(IF column \in DOMAIN data[i].value THEN data[i].value[column] ELSE Undefined,
         data[i].n)]

\* Object.keys(row): the names in the order of their first occurrence
RECURSIVE Keys(_, _)
Keys(fields, row) ==
  IF fields = <<>> THEN <<>>
  ELSE LET rest == Keys(SubSeq(fields, 1, Len(fields) - 1), row)
           last == fields[Len(fields)]
       IN  IF last \in DOMAIN row /\ \A i \in 1..Len(rest) : rest[i] # last
             THEN Append(rest, last)
           ELSE rest

\* the complete callback of parseCSV (16-71)
complete(results, lenient) ==
  LET data == results.data
      columns == Keys(results.fields, data[1].value)
      schema == [i \in 1..Len(columns) |->
                   [name |-> sanitizeColumnName(columns[i]),
                    type |-> detectColumnType(Column(data, columns[i]), lenient),
                    nullable |-> \E k \in 1..Len(data) :
                                   Column(data, columns[i])[k].value
                                     \in {JsNull, Undefined, Str(<<>>)}]]
  IN  IF results.errors > 0
        THEN [data |-> <<>>, schema |-> <<>>, rowCount |-> 0, errors |-> <<"Too few fields">>]
      ELSE IF Length(data) = 0
        THEN [data |-> <<>>, schema |-> <<>>, rowCount |-> 0,
              errors |-> <<"No data found in CSV">>]
      ELSE [data |-> data, schema |-> schema, rowCount |-> Length(data), errors |-> <<>>]

\* parseCSV (11-73)
parseCSV(file, version, lenient) ==
  complete(PapaParse(file, version, [transformHeader |-> FALSE, dynamicTyping |-> FALSE]),
           lenient)

\* detectSchema of the upload route (244-257): an object from column to type
detectSchema(data, columns, lenient) ==
  [column \in {columns[i] : i \in 1..Len(columns)} |->
     LET samples == NotEmpty(Column(SliceFirst(data, Min(SampleLimit, Length(data))), column))
     IN  detectType(samples, lenient)]

\* POST (56-75): the parse result as the upload route takes it
Received(parseResult, lenient) ==
  IF parseResult.errors > 0
    THEN [status |-> 400, data |-> <<>>, columns |-> <<>>, schema |-> <<>>]
  ELSE [status |-> 200, data |-> parseResult.data, columns |-> parseResult.fields,
        schema |-> detectSchema(parseResult.data, parseResult.fields, lenient)]

\* POST (42-75): the file as the upload route reads it
ReadUpload(file, version, lenient) ==
  Received(PapaParse(file, version, [transformHeader |-> TRUE, dynamicTyping |-> TRUE]),
           lenient)

\* ------------------------------------------------------ the ingestion page
\* handleFileSelect (page.tsx 435-448) runs parseCSV on the selected file, then
\* handleUpload posts the file and POST reads it again.
IngestStart(file, version) ==
  [pc |-> "select", file |-> file, papa |-> version,
   parsed |-> [data |-> <<>>, schema |-> <<>>, rowCount |-> 0, errors |-> <<>>],
   uploaded |-> [status |-> 0, data |-> <<>>, columns |-> <<>>, schema |-> <<>>]]

IngestIdle ==
  [IngestStart([header |-> <<>>, lines |-> <<>>, short |-> FALSE], "rename")
     EXCEPT !.pc = "idle"]

\* handleFileSelect: parsedData is set only when parseCSV reports no error
IngestSelect ==
  /\ ing.pc = "select"
  /\ \E lenient \in BOOLEAN :
       LET result == parseCSV(ing.file, ing.papa, lenient)
       IN  ing' = [ing EXCEPT !.pc = IF result.errors # <<>> THEN "rejected" ELSE "upload",
                              !.parsed = result]
  /\ UNCHANGED <<db, up, qr, pl, tc>>

\* handleUpload: posts the file that was parsed
IngestUpload ==
  /\ ing.pc = "upload"
  /\ \E lenient \in BOOLEAN :
       ing' = [ing EXCEPT !.pc = "done", !.uploaded = ReadUpload(ing.file, ing.papa, lenient)]
  /\ UNCHANGED <<db, up, qr, pl, tc>>

\* any other client posts the file without the page
IngestPost ==
  /\ ing.pc = "select"
  /\ \E lenient \in BOOLEAN :
       ing' = [ing EXCEPT !.pc = "done", !.uploaded = ReadUpload(ing.file, ing.papa, lenient)]
  /\ UNCHANGED <<db, up, qr, pl, tc>>

\* ------------------------------------------------------------ createTable
\* mapTypeToPostgres (15-29)
mapTypeToPostgres(type) ==
  CASE type = "INTEGER" -> "INTEGER"
    [] type = "FLOAT" -> "DECIMAL(15,6)"
    [] type = "DATE" -> "DATE"
    [] type = "BOOLEAN" -> "BOOLEAN"
    [] OTHER -> "TEXT"

\* processedSchema (37-42): a column named id, in any case, becomes csv_id
processedSchema(schema) ==
  [i \in 1..Len(schema) |->
     IF toLowerCase(schema[i].name) = <<"i","d">>
       THEN [schema[i] EXCEPT !.name = <<"c","s","v","_","i","d">>]
     ELSE schema[i]]

\* createTableSQL (45-57): CREATE TABLE IF NOT EXISTS with one definition a column
createTableSQL(tableName, schema) ==
  [table |-> tableName,
   columns |-> [i \in 1..Len(schema) |->
                  [name |-> processedSchema(schema)[i].name,
                   type |-> mapTypeToPostgres(processedSchema(schema)[i].type),
                   notNull |-> ~processedSchema(schema)[i].nullable]]]

MaxColumns == 2

TableSchemas ==
  UNION {[1..k -> { [name |-> <<"i","d">>, type |-> "INTEGER", nullable |-> FALSE],
                    [name |-> <<"I","D">>, type |-> "TEXT", nullable |-> TRUE],
                    [name |-> <<"p","r","i","c","e">>, type |-> "FLOAT", nullable |-> TRUE] }] :
           k \in 1..MaxColumns}

TableName == <<"csv_0_1">>

\* TableCreationResult (4-8); returned: the call has returned it
TableResult(success, error) ==
  [tableName |-> TableName, success |-> success, error |-> error, returned |-> TRUE]

\* exists: the table is in the database; ran: the statements the backend ran;
\* log: the lines written to the console
TableStart(schema, exists) ==
  [pc |-> "rpc", schema |-> schema, exists |-> exists, ran |-> <<>>, log |-> <<>>,
   result |-> [tableName |-> <<>>, success |-> FALSE, error |-> "", returned |-> FALSE]]

TableIdle == [TableStart(<<>>, FALSE) EXCEPT !.pc = "idle"]

TableReturn(result, message) ==
  tc' = [tc EXCEPT !.pc = "done", !.result = result, !.log = Append(tc.log, message)]

\* Method 1 (73-89): rpc exec_sql. The statement runs, or the call returns an
\* error (no such function, no privilege, backend unreachable), or it throws.
\* createClient (62-71) throws when the project URL is not configured, which
\* the outer catch (149-156) turns into a failure.
CreateTableRpc ==
  /\ tc.pc = "rpc"
  /\ \/ tc' = [tc EXCEPT !.pc = "done", !.exists = TRUE, !.result = TableResult(TRUE, ""),
                         !.ran = <<createTableSQL(TableName, tc.schema)>>,
                         !.log = Append(tc.log, "created successfully using exec_sql")]
     \/ tc' = [tc EXCEPT !.pc = "rest",
                         !.log = Append(tc.log, "exec_sql failed, trying alternative method")]
     \/ tc' = [tc EXCEPT !.pc = "rest",
                         !.log = Append(tc.log, "exec_sql not available, trying alternative method")]
     \/ TableReturn(TableResult(FALSE, "supabaseUrl is required."), "Table creation exception")
  /\ UNCHANGED <<db, up, qr, pl, ing>>

\* Method 2 (91-116): the same function over REST
CreateTableRest ==
  /\ tc.pc = "rest"
  /\ \/ tc' = [tc EXCEPT !.pc = "done", !.exists = TRUE, !.result = TableResult(TRUE, ""),
                         !.ran = <<createTableSQL(TableName, tc.schema)>>,
                         !.log = Append(tc.log, "created successfully using REST API")]
     \/ tc' = [tc EXCEPT !.pc = "probe", !.log = Append(tc.log, "REST API failed")]
     \/ tc' = [tc EXCEPT !.pc = "probe", !.log = Append(tc.log, "REST API method failed")]
  /\ UNCHANGED <<db, up, qr, pl, ing>>

\* What select('*').limit(1) on the table can return: no error only when the
\* table exists, the error `does not exist' only when it does not, and any
\* other error (no privilege, backend unreachable) or an exception in both cases.
ProbeOutcomes(exists) ==
  (IF exists THEN {"no error"} ELSE {"does not exist"}) \cup {"other error", "throws"}

\* Method 3 (118-148): nothing is created, the table is only looked for
CreateTableProbe ==
  /\ tc.pc = "probe"
  /\ \E outcome \in ProbeOutcomes(tc.exists) :
       IF outcome = "throws"
         THEN TableReturn(TableResult(FALSE, "Failed to create table using all available methods"),
                          "All methods failed")
       ELSE IF outcome = "does not exist"
         THEN TableReturn(TableResult(FALSE, "Unable to create table automatically"),
                          "Table does not exist, attempting creation via alternative method")
       ELSE TableReturn(TableResult(TRUE, ""), "appears to exist or was created")
  /\ UNCHANGED <<db, up, qr, pl, ing>>

\* one file, selected on the upload page or posted by another client
InitIngest ==
  /\ projects = {SeedProject}
  /\ storage = {SeedDataset.file_url}
  /\ datasets = {SeedDataset}
  /\ csv_data = {SeedRows}
  /\ api_keys = {SeedKey, SeedInactiveKey}
  /\ usage_logs = EmptyBag
  /\ up = [u \in Uploads |-> UploadIdle]
  /\ qr = [q \in Queries |-> QueryIdle]
  /\ pl = PlanIdle
  /\ ing \in {IngestStart(file, version) : file \in CsvFiles, version \in PapaVersions}
  /\ tc = TableIdle

NextIngest == IngestSelect \/ IngestUpload \/ IngestPost

SpecIngest == InitIngest /\ [][NextIngest]_vars

\* one call of createTable, the table being there already or not
InitProvision ==
  /\ projects = {SeedProject}
  /\ storage = {SeedDataset.file_url}
  /\ datasets = {SeedDataset}
  /\ csv_data = {SeedRows}
  /\ api_keys = {SeedKey, SeedInactiveKey}
  /\ usage_logs = EmptyBag
  /\ up = [u \in Uploads |-> UploadIdle]
  /\ qr = [q \in Queries |-> QueryIdle]
  /\ pl = PlanIdle
  /\ ing = IngestIdle
  /\ tc \in {TableStart(schema, exists) : schema \in TableSchemas, exists \in BOOLEAN}

NextProvision == CreateTableRpc \/ CreateTableRest \/ CreateTableProbe

SpecProvision == InitProvision /\ [][NextProvision]_vars

Init ==
  /\ projects = {SeedProject}
  /\ storage = {SeedDataset.file_url}
  /\ datasets = {SeedDataset}
  /\ csv_data = {SeedRows}
  /\ api_keys = {SeedKey, SeedInactiveKey}
  /\ usage_logs = EmptyBag
  /\ up = [u \in Uploads |-> UploadIdle]
  /\ qr = [q \in Queries |-> QueryIdle]
  /\ pl = PlanIdle
  /\ ing = IngestIdle
  /\ tc = TableIdle

\* NumUploads concurrent uploads
NextUpload == \E u \in Uploads : Upload(u)

SpecUpload == Init /\ [][NextUpload]_vars

\* NumQueries concurrent queries
NextQuery == \E q \in Queries : Query(q)

SpecQuery == Init /\ [][NextQuery]_vars

\* one upload racing one query
Next == Upload(1) \/ Query(1)

Spec == Init /\ [][Next]_vars

\* NumUploads concurrent uploads and one query
NextResolve == (\E u \in Uploads : Upload(u)) \/ Query(1)

SpecResolve == Init /\ [][NextResolve]_vars

\* one query plan, from the query string to the response, on a fixed dataset
InitPlan ==
  /\ projects = {SeedProject}
  /\ storage = {SeedDataset.file_url}
  /\ datasets = {SeedDataset}
  /\ csv_data = {SeedRows}
  /\ api_keys = {SeedKey, SeedInactiveKey}
  /\ usage_logs = EmptyBag
  /\ up = [u \in Uploads |-> UploadIdle]
  /\ qr = [q \in Queries |-> QueryIdle]
  /\ pl \in {PlanStart(dataset, searchParams) :
               dataset \in PlanDatasets, searchParams \in Requests}
  /\ ing = IngestIdle
  /\ tc = TableIdle

NextPlan == PlanParse \/ PlanExecute \/ PlanNextPage

SpecPlan == InitPlan /\ [][NextPlan]_vars

\* ------------------------------------------------------------ properties
\* requests that came back 200 after presenting a given cleartext key
Served(apiKey) ==
  {q \in Queries : qr[q].pc = "done" /\ qr[q].res.status = 200 /\ qr[q].apiKey = apiKey}

\* the request_count a key had in the initial state
InitialCount(k) == IF k.id = SeedId THEN SeedRequestCount ELSE 0

Quiescent == \A q \in Queries : qr[q].pc \in {"start", "done"}

\* C1: of the concurrent requests presenting a key whose request_count is
\* request_limit_per_month - 1, at most one is served (200): the number of served
\* requests never exceeds what the monthly limit leaves.
C1_NoOvershoot ==
  \A k \in api_keys :
    \A apiKey \in PresentedKeys :
      k.key_hash = Sha256Hex(apiKey) =>
        Cardinality(Served(apiKey)) <= k.request_limit_per_month - InitialCount(k)

\* C2: when N requests presenting one key have been served, that key's
\* request_count is exactly N above its initial value.
C2_NoLostIncrement ==
  Quiescent =>
    \A k \in api_keys :
      \A apiKey \in PresentedKeys :
        k.key_hash = Sha256Hex(apiKey) =>
          k.request_count = InitialCount(k) + Cardinality(Served(apiKey))

\* C3: a query that found a dataset record gets the rows of a complete dataset:
\* it never sees fewer rows than the record's row_count allows on the first page.
C3_NeverPartiallyVisible ==
  \A q \in Queries :
    qr[q].pc = "updateUsage" =>
      qr[q].res.returned = Min(qr[q].ds.row_count, DefaultLimit)

IsDone(u) == up[u].pc = "done"

C5_CleanupAfterInterruption ==
  \A u \in Uploads :
    IsDone(u) /\ up[u].res.status # 200 => \A d \in datasets : d.id # u

Rejections ==
  {"File too large. Maximum size is 10MB", "CSV parsing failed",
   "Too many rows. Free tier supports up to 10,000 rows"}

\* C6: the step in which an upload is rejected for its size, its parse errors or
\* its row count changes no table and no stored file.
C6_RejectionHasNoSideEffects ==
  [][\A u \in Uploads :
       (up[u].pc = "start" /\ up'[u].pc = "done" /\ up'[u].res.error \in Rejections)
         => db' = db]_vars

C6_Witness ==
  \E u \in Uploads : IsDone(u) /\ up[u].res.error \in Rejections /\ up[u].res.status = 400

\* C7: every upload answered with success has stored exactly one key record with
\* the hash of the returned cleartext key, in the owning project, with the
\* default monthly limit.
C7_SuccessStoresIssuedKey ==
  \A u \in Uploads :
    IsDone(u) /\ up[u].res.status = 200 =>
      Cardinality({k \in api_keys :
                     /\ k.key_hash = Sha256Hex(up[u].res.key)
                     /\ k.project_id = up[u].res.project_id
                     /\ k.request_limit_per_month = DefaultMonthlyLimit}) = 1

\* C8: every stored batch has at most batchSize rows; the rows stored for a dataset
\* are at every moment rows 1..m, batch after batch in row order; the i-th parsed
\* record is stored with row_number i; success is reported only with all rows stored.
C8_BatchesInRowOrder ==
  /\ \A r \in csv_data :
       /\ 1 <= RunLength(r) /\ RunLength(r) <= batchSize
       /\ r.first.row_number = r.first.data + 1
       /\ r.last.row_number = r.last.data + 1
       /\ r.first.row_number =
            1 + SumLengths({p \in RunsOf(r.first.dataset_id) :
                              p.first.row_number < r.first.row_number})
  /\ \A u \in Uploads :
       IsDone(u) /\ up[u].res.status = 200 =>
         /\ StoredRows(u) = up[u].res.rows
         /\ \A d \in datasets : d.id = u => d.row_count = StoredRows(u)

C8_Witness ==
  \E u \in Uploads :
    IsDone(u) /\ up[u].res.status = 200 /\ up[u].res.rows > batchSize
      /\ Cardinality(RunsOf(u)) >= 2

\* the chunks of key occur, in order and adjacent, in text
Occurs(key, text) ==
  \E i \in 1..(Len(text) - Len(key) + 1) : SubSeq(text, i, i + Len(key) - 1) = key

CleartextKeys == {ApiKeyOf(r) : r \in Uploads \cup {SeedId, InactiveId}}

StoredText ==
  UNION { {k.key_prefix, k.key_hash, <<k.name>>} : k \in api_keys }
  \cup UNION { {d.name, d.original_filename, d.file_url, <<d.table_name>>} : d \in datasets }
  \cup UNION { {l.endpoint, <<l.method>>, <<l.error_message>>} : l \in BagToSet(usage_logs) }
  \cup storage
  \cup {p.slug : p \in projects}

\* C9: no stored record contains a cleartext key; what is stored of a key is its
\* digest and its truncated prefix, and only a success response of an upload
\* carries the cleartext.
C9_CleartextNeverPersisted ==
  /\ \A key \in CleartextKeys : \A text \in StoredText : ~Occurs(key, text)
  /\ \A k \in api_keys :
       \E key \in CleartextKeys :
         k.key_hash = Sha256Hex(key) /\ k.key_prefix = <<key[1], key[2], "...">>
  /\ \A u \in Uploads : up[u].res.key # NoKey => up[u].res.status = 200

C9_Witness ==
  \E u \in Uploads :
    /\ IsDone(u) /\ up[u].res.status = 200
    /\ \E k \in api_keys :
         /\ k.key_hash = Sha256Hex(up[u].res.key)
         /\ \E l \in BagToSet(usage_logs) : l.api_key_id = k.id /\ l.status_code = 200

\* C10: the update of a served request raises the stored request_count of the
\* presenting key by exactly one.
C10_ChargedExactlyOnce ==
  [][\A q \in Queries :
       (qr[q].pc = "updateUsage" /\ qr'[q].pc # "updateUsage") =>
         \A k \in api_keys :
           k.id = qr[q].keyData.id =>
             \E k2 \in api_keys' : k2.id = k.id /\ k2.request_count = k.request_count + 1]_vars

\* C11: the step that writes the usage log leaves the response of the request as it
\* was before the step, whether the entry was written or the write failed: a failed
\* log write changes neither the status nor the body that is returned.
C11_LogFailureSwallowed ==
  [][\A q \in Queries :
       (qr[q].pc = "log" /\ qr'[q].pc = "done") =>
         /\ qr'[q].res = qr[q].res
         /\ qr'[q].res.status \in {200, 401, 403, 404, 429, 500}]_vars

\* a request was answered 200 although no usage log entry was ever written
C11_Witness ==
  \E q \in Queries :
    /\ qr[q].pc = "done"
    /\ qr[q].res.status = 200
    /\ qr[q].res.returned > 0
    /\ usage_logs = EmptyBag

\* what the handler finds when it looks the presented key up in the current store
KeyRecords(apiKey) == LookupKey(Sha256Hex(apiKey))

KeyRejected(apiKey) == apiKey = NoKey \/ Cardinality(KeyRecords(apiKey)) # 1

LimitReached(apiKey) ==
  \E k \in KeyRecords(apiKey) : k.request_count >= k.request_limit_per_month

WrongProject(apiKey, project) == \E k \in KeyRecords(apiKey) : k.slug # project

DatasetMissing(project_id, name) ==
  Cardinality({d \in datasets : d.project_id = project_id /\ d.name = name}) # 1

PlanServed == pl.pc = "done" /\ pl.res.status = 200

\* the rows of the dataset that pass every filter and the search of the parsed plan
PlanSelection == Selected(pl.dataset.rows, pl.params, pl.dataset.schema_json)

\* C13: pagination.total of every 200 response is the number of rows that satisfy
\* all filters and the search term, before pagination; it is 0 when no row does.
C13_TotalIsFilteredCount ==
  PlanServed => pl.res.pagination.total = Cardinality(PlanSelection)

\* C14: in a 200 response to a plan with page >= 1 and 1 <= limit <= 1000,
\* totalPages is the least integer n with n * limit >= total, and data holds at
\* most limit rows.
C14_TotalPagesAndPageSize ==
  (/\ PlanServed
   /\ pl.params.page.kind = "int" /\ pl.params.page.v >= 1
   /\ pl.params.limit.kind = "int" /\ pl.params.limit.v >= 1 /\ pl.params.limit.v <= MaxLimit)
  => /\ pl.res.pagination.totalPages.kind = "int"
     /\ pl.res.pagination.totalPages.v * pl.params.limit.v >= pl.res.pagination.total
     /\ (pl.res.pagination.totalPages.v - 1) * pl.params.limit.v < pl.res.pagination.total
     /\ Len(pl.res.data) <= pl.params.limit.v

\* a full page of a result whose total is not a multiple of the limit
C14_Witness ==
  /\ PlanServed
  /\ pl.params.page = Number(1)
  /\ pl.params.limit = Number(2)
  /\ pl.res.pagination.total = 3
  /\ pl.res.pagination.totalPages = Number(2)
  /\ Len(pl.res.data) = 2

\* C15: the plan that reaches query execution has an integer page >= 1 and an
\* integer limit between 1 and 1000, so that the range it asks for starts at an
\* offset >= 0 and is not empty.
C15_PlanIsValid ==
  pl.pc = "execute" =>
    /\ pl.params.page.kind = "int" /\ pl.params.page.v >= 1
    /\ pl.params.limit.kind = "int" /\ pl.params.limit.v >= 1 /\ pl.params.limit.v <= MaxLimit
    /\ RangeFrom(pl.params).kind = "int" /\ RangeFrom(pl.params).v >= 0
    /\ RangeTo(pl.params).kind = "int" /\ RangeTo(pl.params).v >= RangeFrom(pl.params).v

\* the value of a text of digits as a number
NumericValue(text) == parseInt(text).v

Given(bound) == bound # Null /\ bound # <<>>

\* the row's field lies within the bounds of a range filter, compared as numbers
InRangeNumerically(data, field, entry) ==
  /\ JsonText(data, field) # Null
  /\ Given(entry.min) => NumericValue(entry.min) <= NumericValue(JsonText(data, field))
  /\ Given(entry.max) => NumericValue(JsonText(data, field)) <= NumericValue(entry.max)

RangeFields == {field \in DOMAIN pl.params.filters : pl.params.filters[field].isRange}

\* the request is the first page, at the default limit, of a query with range
\* filters only: its response shows the whole selection
RangeOnlyRequest ==
  /\ RangeFields # {}
  /\ RangeFields = DOMAIN pl.params.filters
  /\ pl.searchParams.q = Null
  /\ pl.searchParams.page = Null
  /\ pl.searchParams.limit = Null

\* C16: the rows returned for f_min=a and f_max=b on a numeric column are exactly
\* the rows whose value of f, compared as a number, lies in [a, b]: every returned
\* row lies in the range, and the first page at the default limit holds every row
\* that does.
C16_RangeIsNumeric ==
  PlanServed =>
    /\ \A i \in 1..Len(pl.rows) : \A field \in RangeFields :
         InRangeNumerically(pl.rows[i].data, field, pl.params.filters[field])
    /\ RangeOnlyRequest =>
         {pl.rows[i].row_number : i \in 1..Len(pl.rows)} =
           {r.row_number : r \in {x \in pl.dataset.rows :
              \A field \in RangeFields :
                InRangeNumerically(x.data, field, pl.params.filters[field])}}

\* what one key=value pair of the query string asks of a row: equality for a plain
\* key, an inclusive bound for key_min and key_max
PairHolds(data, pair) ==
  LET key == pair[1]
      value == pair[2]
      text == JsonText(data, StripSuffix(key))
  IN  IF endsWith(key, "_min")
        THEN text # Null /\ NumericValue(value) <= NumericValue(text)
      ELSE IF endsWith(key, "_max")
        THEN text # Null /\ NumericValue(text) <= NumericValue(value)
      ELSE JsonText(data, key) = value

\* the query string has both f=v and a bound f_min or f_max on one field f
EqualityAndRange ==
  \E i, j \in 1..Len(pl.searchParams.others) :
    LET plain == pl.searchParams.others[i][1]
        bound == pl.searchParams.others[j][1]
    IN  /\ (endsWith(bound, "_min") \/ endsWith(bound, "_max"))
        /\ StripSuffix(bound) = plain

ValidPaging ==
  /\ pl.searchParams.page \in {Null, <<"2">>}
  /\ pl.searchParams.limit \in {Null, <<"1">>, <<"2">>, <<"2","0","0","0">>}

\* C17: a request with an equality filter and a range bound on the same field does
\* not fail, and every row it returns satisfies both, in whichever order the two
\* parameters were written.
C17_EqualityAndRangeBothApply ==
  (pl.pc = "done" /\ EqualityAndRange /\ ValidPaging) =>
    /\ pl.res.status = 200
    /\ \A i \in 1..Len(pl.rows) : \A k \in 1..Len(pl.searchParams.others) :
         PairHolds(pl.rows[i].data, pl.searchParams.others[k])

\* C18: a request whose sort names a column that is not in the schema is answered
\* with an error, not with a result.
C18_UnknownSortRejected ==
  (/\ pl.pc = "done"
   /\ Given(pl.searchParams.sort)
   /\ pl.searchParams.sort \notin DOMAIN pl.dataset.schema_json)
  => (~pl.res.success /\ pl.res.status # 200)

\* row numbers in strictly ascending order
Ascending(numbers) == \A i \in 1..(Len(numbers) - 1) : numbers[i] < numbers[i + 1]

\* a client that started at page 1 of an unsorted query has walked the pages up to
\* the last one, totalPages
WalkComplete ==
  /\ PlanServed
  /\ pl.searchParams.sort = Null
  /\ pl.firstPage = Null
  /\ pl.res.pagination.page.kind = "int"
  /\ pl.res.pagination.totalPages.kind = "int"
  /\ pl.res.pagination.page.v = pl.res.pagination.totalPages.v

\* C19: without sort, the rows of a response are in ascending row_number order, and
\* the pages 1..totalPages of one query, taken in order, hold every selected row
\* exactly once, in ascending row_number order.
C19_PagesPartitionInRowOrder ==
  /\ (PlanServed /\ pl.searchParams.sort = Null) =>
       Ascending([i \in 1..Len(pl.rows) |-> pl.rows[i].row_number])
  /\ WalkComplete =>
       /\ Ascending(pl.seen)
       /\ {pl.seen[i] : i \in 1..Len(pl.seen)} = {r.row_number : r \in PlanSelection}

\* a walk of two pages over a filtered result of three rows
C19_Witness ==
  /\ WalkComplete
  /\ pl.res.pagination.page.v = 2
  /\ Len(pl.seen) = 3
  /\ Cardinality(PlanSelection) < PlanRows

\* C20: with q present, every returned row has a column of schema type text whose
\* value contains q, letter case ignored; a dataset without a text column returns
\* no row.
C20_SearchOverTextColumns ==
  (PlanServed /\ Given(pl.searchParams.q)) =>
    \A i \in 1..Len(pl.rows) :
      \E key \in DOMAIN pl.dataset.schema_json :
        /\ pl.dataset.schema_json[key] = "text"
        /\ ilike(JsonText(pl.rows[i].data, key), pl.searchParams.q)

\* C21: when fields is present, every row of a 200 response holds only columns
\* that fields lists.
C21_OnlyListedFields ==
  (PlanServed /\ Given(pl.searchParams.fields)) =>
    \A i \in 1..Len(pl.res.data) :
      DOMAIN pl.res.data[i] \subseteq
        {pl.params.fields[k] : k \in 1..Len(pl.params.fields)}

\* C26: the only step that changes api_keys while queries run is the usage update
\* of a request whose response is already the 200 it will return, and it changes
\* that request's key only; a request that is answered 401, 403, 404, 429 or 500
\* never writes request_count or last_used_at.
C26_FailuresAreNotCharged ==
  [][/\ (api_keys' # api_keys) =>
          \E charged \in Queries :
            /\ qr[charged].pc = "updateUsage"
            /\ qr[charged].res.status = 200
            /\ qr'[charged].pc = "log"
            /\ \A k \in api_keys \ api_keys' : k.id = qr[charged].keyData.id
      /\ \A q \in Queries :
            /\ qr[q].res.status = 200 => qr'[q].res = qr[q].res
            /\ qr[q].res.status \notin {0, 200} => qr'[q].res = qr[q].res
            /\ (qr'[q] # qr[q] /\ qr'[q].res.status \notin {0, 200}) =>
                  api_keys' = api_keys]_vars

\* a request with the seed key got past authentication, failed, and the key record
\* is as it was
C26_Witness ==
  /\ \E q \in Queries :
       /\ qr[q].pc = "done"
       /\ qr[q].apiKey = ApiKeyOf(SeedId)
       /\ qr[q].res.status \in {404, 500}
  /\ \A q \in Queries : qr[q].res.status # 200
  /\ SeedKey \in api_keys

\* the project of the key a request presented
ProjectsOfKey(apiKey) == {k.project_id : k \in {x \in api_keys : x.key_hash = Sha256Hex(apiKey)}}

\* C27: when a request is answered with rows, the dataset the rows were read from
\* belongs to the project of the key the request presented, and the rows are rows
\* of that dataset: no key of one project reads a dataset of another.
C27_NoCrossProjectRows ==
  [][\A q \in Queries :
       (qr[q].pc = "executeQuery" /\ qr'[q].res.status = 200) =>
         /\ \A d \in datasets :
              d.id = qr'[q].res.dataset_id => ProjectsOfKey(qr[q].apiKey) = {d.project_id}
         /\ qr'[q].res.returned <= StoredRows(qr'[q].res.dataset_id)
         /\ qr'[q].res.returned > 0 => \E d \in datasets : d.id = qr'[q].res.dataset_id]_vars

\* two projects hold a dataset each and a request with the key of the second one
\* was answered with rows of its dataset
C27_Witness ==
  /\ \E d \in datasets : d.project_id = SeedId
  /\ \E d \in datasets : d.id = 1 /\ d.project_id = 1
  /\ \E q \in Queries :
       /\ qr[q].pc = "done"
       /\ qr[q].res.status = 200
       /\ qr[q].res.returned > 0
       /\ qr[q].res.dataset_id = 1
       /\ qr[q].apiKey = ApiKeyOf(1)

\* the endpoints that successful uploads have returned
IssuedEndpoints ==
  {up[u].res.endpoint : u \in {x \in Uploads : up[x].pc = "done" /\ up[x].res.status = 200}}

\* C28: once the uploads that ran have all succeeded, a GET on an endpoint that one
\* of them returned, with a valid key of the project that is under its limit, is
\* not answered 404.
C28_IssuedEndpointResolves ==
  [][\A q \in Queries :
       (/\ qr[q].pc = "getDataset"
        /\ \A u \in Uploads : up[u].pc = "start" \/ (up[u].pc = "done" /\ up[u].res.status = 200)
        /\ EndpointPath(qr[q].project, qr[q].dataset) \in IssuedEndpoints)
       => qr'[q].res.status # 404]_vars

\* C29: no user owns more than one project, and no upload is refused because the
\* user's existing project could not be read back.
C29_OneProjectPerUser ==
  /\ \A user \in Users : Cardinality({p \in projects : p.user_id = user}) <= 1
  /\ \A u \in Uploads :
       up[u].pc = "done" => up[u].res.error # "Failed to access existing project"

\* the upload names a project that the authenticated user does not own
ForeignProject(u) ==
  /\ up[u].pc = "selectProject"
  /\ \A p \in projects : p.id = up[u].projectId => p.user_id # up[u].user

\* C30: an upload that names a project its user does not own has written nothing
\* when the ownership is tested, and its next step is to fail, writing nothing.
C30_ForeignProjectUploadFails ==
  [][\A u \in Uploads :
       /\ (up[u].pc = "start" /\ up'[u].pc = "selectProject") => db' = db
       /\ (ForeignProject(u) /\ up'[u] # up[u]) =>
            /\ up'[u].pc = "done"
            /\ up'[u].res.status = 500
            /\ up'[u].res.key = NoKey
            /\ db' = db]_vars

\* user u2 named the seed project of u1, was refused, and the store holds what it
\* held before
C30_Witness ==
  /\ \E u \in Uploads :
       /\ up[u].pc = "done"
       /\ up[u].res.status = 500
       /\ up[u].res.error = "Internal server error"
  /\ \A u \in Uploads : up[u].pc = "done" /\ up[u].res.status = 500
  /\ projects = {SeedProject}
  /\ datasets = {SeedDataset}
  /\ storage = {SeedDataset.file_url}
  /\ csv_data = {SeedRows}
  /\ api_keys = {SeedKey, SeedInactiveKey}

\* the cells of a file as one column of texts
FileSamples(file) == [i \in 1..Len(file.lines) |-> Run(Str(file.lines[i].value), file.lines[i].n)]

\* the five rules on one sample text
DateRule(sample) ==
  /\ \/ Separated(sample.s, 4, 2, 2, "-") \/ Separated(sample.s, 2, 2, 4, "/")
     \/ Separated(sample.s, 2, 2, 4, "-") \/ Separated(sample.s, 4, 2, 2, "/")
  /\ DateParse(sample.s, FALSE) # NaN
BooleanRule(sample) == toLowerCase(sample.s) \in BooleanWords \cup {<<"y">>, <<"n">>}
IntegerRule(sample) ==
  /\ sample.s # <<>> /\ \A i \in 1..Len(sample.s) : sample.s[i] \in Digits
  /\ (Len(sample.s) = 1 \/ sample.s[1] # "0")
FloatRule(sample) == parseFloat(sample.s) # NaN

FirstRule(file) ==
  LET nonEmpty == SelectSeq(FileSamples(file), LAMBDA r : r.value.s # <<>>)
      first == SliceFirst(nonEmpty, 100)
      samples == {first[i].value : i \in 1..Len(first)}
  IN  IF samples = {} THEN "TEXT"
      ELSE IF \A sample \in samples : DateRule(sample) THEN "DATE"
      ELSE IF \A sample \in samples : BooleanRule(sample) THEN "BOOLEAN"
      ELSE IF \A sample \in samples : IntegerRule(sample) THEN "INTEGER"
      ELSE IF \A sample \in samples : FloatRule(sample) THEN "FLOAT"
      ELSE "TEXT"

\* the type names of the upload route read as the five types
TypeNamed(type) ==
  CASE type = "date" -> "DATE" [] type = "boolean" -> "BOOLEAN"
    [] type = "integer" -> "INTEGER" [] type = "number" -> "FLOAT"
    [] type = "text" -> "TEXT" [] OTHER -> type

PageTypesFollowRules ==
  \A i \in 1..Len(ing.parsed.schema) : ing.parsed.schema[i].type = FirstRule(ing.file)

UploadTypesFollowRules ==
  ing.uploaded.status = 200 =>
    \A column \in DOMAIN ing.uploaded.schema :
      TypeNamed(ing.uploaded.schema[column]) = FirstRule(ing.file)

\* C22: the type inferred for a column, by the page's parser and by the upload
\* route, is the first of the rules DATE, BOOLEAN, INTEGER, FLOAT, TEXT that
\* holds for all of the first 100 non-empty samples (TEXT when there is none),
\* so it is always one of these five types.
C22_TypeIsFirstRule == PageTypesFollowRules /\ UploadTypesFollowRules

PageNamesDistinct ==
  \A i, j \in 1..Len(ing.parsed.schema) :
    i # j => ing.parsed.schema[i].name # ing.parsed.schema[j].name

UploadNamesDistinct ==
  ing.uploaded.status = 200 =>
    /\ \A i, j \in 1..Len(ing.uploaded.columns) :
         i # j => ing.uploaded.columns[i] # ing.uploaded.columns[j]
    /\ Cardinality(DOMAIN ing.uploaded.schema) = Len(ing.file.header)

\* C23: the column names of a produced schema are pairwise distinct, and every
\* column of the file has its own entry in it.
C23_ColumnNamesDistinct == PageNamesDistinct /\ UploadNamesDistinct

PageRowsMatchSchema ==
  \A r \in 1..Len(ing.parsed.data) :
    DOMAIN ing.parsed.data[r].value =
      {ing.parsed.schema[i].name : i \in 1..Len(ing.parsed.schema)}

UploadRowsMatchSchema ==
  \A r \in 1..Len(ing.uploaded.data) :
    DOMAIN ing.uploaded.data[r].value = DOMAIN ing.uploaded.schema

\* C24: in a parsed dataset the field names of every row are exactly the column
\* names of the schema.
C24_RowFieldsAreSchemaColumns == PageRowsMatchSchema /\ UploadRowsMatchSchema

\* C25: createTable returns success:true only when the table exists after the
\* call; when no method created it, the result is success:false with an error.
C25_SuccessMeansTableExists ==
  (tc.pc = "done" /\ tc.result.success) => tc.exists

====
